---------------------------- MODULE Spec2Model ----------------------------
(***************************************************************************)
(* A model of the Nova Scotia school mapper (ns_school_mapper_interactive  *)
(* v9): the client-side marker store with its view synchronizer and CSV    *)
(* export, and the server-side geocoding client with its batch driver.     *)
(*                                                                         *)
(* Text is modelled as sequences of one-character strings, so that         *)
(* trimming, case folding, substring search, quoting and parsing are       *)
(* computed character by character.  Coordinates are integers: a value     *)
(* held by a record is in units of 1e-6 degree (what toFixed(6) keeps), a  *)
(* raw map coordinate is in units of 1e-7 degree.  JavaScript indices are  *)
(* kept 0-based as in the source; DATA[idx] of the source is DATA[idx+1].  *)
(* An optional value (null in the source) is <<>>, a present one is <<x>>. *)
(***************************************************************************)
EXTENDS Integers, Sequences, FiniteSets, TLC

VARIABLES
    \* ---- client-side marker store (the page's script) ----
    DATA,          \* the record collection
    markers,       \* the marker list [{marker, rec}]
    UNDO_STACK,    \* {type:'delete', rec, idx}
    moveIndex,     \* pending move: <<>> or <<idx>>
    lastClickLL,   \* <<>> or <<[lat, lng]>>, raw coordinates
    addMode,       \* Add Mode toggle
    LIST_ON,       \* list view toggle
    schoolList,    \* the rendered list: a sequence of list items
    statusChk,     \* the set of checked status check boxes (their values)
    groupOptions,  \* the options of the group selector
    groupSel,      \* the selected options of the group selector
    searchBox,     \* the text of the search box
    forms,         \* the open add forms
    csvOut,        \* the file the last handler offered for download, or <<>>
    toast,         \* the notice the last handler showed, or <<>>
    \* ---- history variables of the store (not program state) ----
    nextUid,       \* the next fresh record identity
    moveTarget,    \* identity of the record Move was requested for
    hist,          \* the last operation and what it started from
    nOps,          \* number of handler runs so far
    \* ---- server-side geocoding (the batch run) ----
    geo            \* the state of the batch run and of the geocode call in it

storeVars == <<DATA, markers, UNDO_STACK, moveIndex, lastClickLL, addMode, LIST_ON,
               schoolList, statusChk, groupOptions, groupSel, searchBox, forms,
               csvOut, toast, nextUid, moveTarget, hist, nOps>>
vars == <<storeVars, geo>>

(***************************************************************************)
(* Bounds of the model.                                                    *)
(***************************************************************************)
MaxInit == 3        \* records embedded in the page at most
MaxOps == 3         \* handler runs per behaviour
MaxForms == 1       \* add forms open at once

None == <<>>
Some(x) == <<x>>
IsSome(o) == o # <<>>
Val(o) == o[1]

Min(a, b) == IF a <= b THEN a ELSE b

(***************************************************************************)
(* Text.                                                                   *)
(***************************************************************************)
\* the characters String.prototype.trim removes; a character outside ASCII is
\* written as the one-element text of its code point
WS == {" ", "\n", "\t", "\r", "U+FEFF"}

LowerOf ==
    ("A" :> "a") @@ ("B" :> "b") @@ ("C" :> "c") @@ ("D" :> "d") @@ ("E" :> "e") @@
    ("F" :> "f") @@ ("G" :> "g") @@ ("H" :> "h") @@ ("I" :> "i") @@ ("J" :> "j") @@
    ("K" :> "k") @@ ("L" :> "l") @@ ("M" :> "m") @@ ("N" :> "n") @@ ("O" :> "o") @@
    ("P" :> "p") @@ ("Q" :> "q") @@ ("R" :> "r") @@ ("S" :> "s") @@ ("T" :> "t") @@
    ("U" :> "u") @@ ("V" :> "v") @@ ("W" :> "w") @@ ("X" :> "x") @@ ("Y" :> "y") @@
    ("Z" :> "z")

\* String.prototype.toLowerCase
toLowerCase(s) == [i \in 1..Len(s) |-> IF s[i] \in DOMAIN LowerOf THEN LowerOf[s[i]] ELSE s[i]]

RECURSIVE TrimLeft(_)
TrimLeft(s) == IF s # <<>> /\ Head(s) \in WS THEN TrimLeft(Tail(s)) ELSE s

RECURSIVE TrimRight(_)
TrimRight(s) ==
    IF s # <<>> /\ s[Len(s)] \in WS THEN TrimRight(SubSeq(s, 1, Len(s) - 1)) ELSE s

\* String.prototype.trim
trim(s) == TrimRight(TrimLeft(s))

\* String.prototype.includes
includes(hay, q) ==
    \E i \in 0..(Len(hay) - Len(q)) : SubSeq(hay, i + 1, i + Len(q)) = q

RECURSIVE Join(_, _)
\* Array.prototype.join
Join(ss, sep) ==
    IF ss = <<>> THEN <<>>
    ELSE IF Len(ss) = 1 THEN ss[1]
    ELSE ss[1] \o sep \o Join(Tail(ss), sep)

Digit == <<"0", "1", "2", "3", "4", "5", "6", "7", "8", "9">>

RECURSIVE NatToStr(_)
NatToStr(n) == IF n < 10 THEN <<Digit[n + 1]>> ELSE NatToStr(n \div 10) \o <<Digit[(n % 10) + 1]>>

RECURSIVE FracToStr(_, _)
\* the k decimals of f / 10^k, trailing zeros dropped
FracToStr(f, k) ==
    IF f = 0 \/ k = 0 THEN <<>>
    ELSE LET p == 10 ^ (k - 1) IN <<Digit[(f \div p) + 1]>> \o FracToStr(f % p, k - 1)

\* String(x) of a number x held in units of 1e-6: 44650000 is "44.65"
NumToStr(x) ==
    LET a == IF x < 0 THEN -x ELSE x
        frac == FracToStr(a % 1000000, 6)
    IN (IF x < 0 THEN <<"-">> ELSE <<>>) \o NatToStr(a \div 1000000)
       \o (IF frac = <<>> THEN <<>> ELSE <<".">> \o frac)

\* Number(x.toFixed(6)) of a raw coordinate x (units of 1e-7): toFixed rounds the
\* magnitude, a tie going to the larger magnitude
toFixed6(x) == IF x < 0 THEN -((-x + 5) \div 10) ELSE (x + 5) \div 10

(***************************************************************************)
(* Status and the visibility predicate.                                    *)
(***************************************************************************)
sNone == <<"n","o","n","e">>
sRecent == <<"r","e","c","e","n","t">>
sCurrent == <<"c","u","r","r","e","n","t">>
sActive == <<"a","c","t","i","v","e">>
sBoth == <<"b","o","t","h">>

\* const COLOR = {none:..., recent:..., current:...}
COLOR == [s \in {sNone, sRecent, sCurrent} |->
            IF s = sNone THEN "#808080" ELSE IF s = sRecent THEN "#1f77b4" ELSE "#2ca02c"]

\* COLOR[s]: undefined for a key COLOR does not have
colorOf(s) == IF s \in DOMAIN COLOR THEN COLOR[s] ELSE "undefined"

normalizeStatusUnchecked(s) == toLowerCase(trim(s))

\* function normalizeStatus(s)
normalizeStatus(s) ==
    LET v == toLowerCase(trim(s))
    IN IF v = sRecent THEN sRecent
       ELSE IF v = sCurrent \/ v = sActive \/ v = sBoth THEN sCurrent
       ELSE sNone

visiblePredicateNoGroupGuard(rec, chk, sel, box) ==
    LET q == toLowerCase(trim(box))
        hay == toLowerCase(rec.School \o <<" ">> \o rec.Address)
    IN /\ normalizeStatus(rec.Status) \in chk
       /\ rec.Group \in sel
       /\ (q # <<>> => includes(hay, q))

\* function visiblePredicate(rec), reading the check boxes (chk), the selected
\* groups (sel) and the search box (box)
visiblePredicate(rec, chk, sel, box) ==
    LET statuses == chk
        groups == sel
        q == toLowerCase(trim(box))
        show1 == normalizeStatus(rec.Status) \in statuses
        show2 == IF show1 /\ groups # {} THEN rec.Group \in groups ELSE show1
        hay == toLowerCase(rec.School \o <<" ">> \o rec.Address)
    IN IF show2 /\ q # <<>> THEN includes(hay, q) ELSE show2

(***************************************************************************)
(* Markers and the list view.                                              *)
(***************************************************************************)
HasUid(data, u) == \E i \in 1..Len(data) : data[i].uid = u
RecByUid(data, u) == data[CHOOSE i \in 1..Len(data) : data[i].uid = u]

\* the marker addCircleFor(rec, idx, map) creates and adds to the map
circleFor(rec, idx) ==
    [rec |-> rec.uid, idx |-> idx, shown |-> TRUE,
     lat |-> rec.lat * 10, lng |-> rec.lon * 10,
     color |-> colorOf(normalizeStatus(rec.Status))]

applyFiltersAddOnly(ms, data, chk, sel, box) ==
    [k \in 1..Len(ms) |->
        [ms[k] EXCEPT !.shown = @ \/ visiblePredicate(RecByUid(data, ms[k].rec), chk, sel, box)]]

\* function applyFilters(map): each marker is added to or removed from the map
applyFiltersTo(ms, data, chk, sel, box) ==
    [k \in 1..Len(ms) |->
        [ms[k] EXCEPT !.shown = visiblePredicate(RecByUid(data, ms[k].rec), chk, sel, box)]]

\* function rebuildMarkers(map), its trailing applyFilters included: every record
\* of DATA has finite coordinates, so every record gets a marker
rebuildMarkersOf(data, chk, sel, box) ==
    applyFiltersTo([k \in 1..Len(data) |-> circleFor(data[k], k - 1)], data, chk, sel, box)

Alphabet ==
    <<" ", "\n", "\"", ",", "-", ".", "0", "1", "2", "3", "4", "5", "6", "7", "8", "9",
      "a", "b", "c", "d", "e", "f", "g", "h", "i", "j", "k", "l", "m", "n", "o", "p",
      "q", "r", "s", "t", "u", "v", "w", "x", "y", "z">>
Rank(c) == CHOOSE i \in 1..Len(Alphabet) : Alphabet[i] = c

RECURSIVE StrLess(_, _)
StrLess(a, b) ==
    IF b = <<>> THEN FALSE
    ELSE IF a = <<>> THEN TRUE
    ELSE IF Rank(Head(a)) # Rank(Head(b)) THEN Rank(Head(a)) < Rank(Head(b))
    ELSE StrLess(Tail(a), Tail(b))

\* String(a.rec.School||'').localeCompare(String(b.rec.School||'')) < 0, letters
\* compared without regard to case
SchoolBefore(a, b) == StrLess(toLowerCase(a), toLowerCase(b))

RECURSIVE InsertSorted(_, _, _)
InsertSorted(items, it, data) ==
    IF items = <<>> THEN <<it>>
    ELSE IF SchoolBefore(data[it.idx + 1].School, data[Head(items).idx + 1].School)
         THEN <<it>> \o items
         ELSE <<Head(items)>> \o InsertSorted(Tail(items), it, data)

RECURSIVE SortedItems(_, _)
\* rows.sort(...) of rebuildList: a stable sort by school name
SortedItems(rows, data) ==
    IF rows = <<>> THEN <<>>
    ELSE InsertSorted(SortedItems(Tail(rows), data), Head(rows), data)

RECURSIVE VisibleRows(_, _, _, _, _)
VisibleRows(data, k, chk, sel, box) ==
    IF k > Len(data) THEN <<>>
    ELSE (IF visiblePredicate(data[k], chk, sel, box)
          THEN <<[idx |-> k - 1, rec |-> data[k].uid]>> ELSE <<>>)
         \o VisibleRows(data, k + 1, chk, sel, box)

rebuildListUnsorted(data, listOn, chk, sel, box) ==
    IF ~listOn THEN <<>> ELSE VisibleRows(data, 1, chk, sel, box)

\* function rebuildList(): the items of the list, each with the index it zooms to
rebuildListOf(data, listOn, chk, sel, box) ==
    IF ~listOn THEN <<>> ELSE SortedItems(VisibleRows(data, 1, chk, sel, box), data)

(***************************************************************************)
(* CSV export.                                                             *)
(***************************************************************************)
headers == <<"School", "Address", "Group", "lat", "lon", "Status">>
headerText == <<<<"S","c","h","o","o","l">>, <<"A","d","d","r","e","s","s">>, <<"G","r","o","u","p">>, <<"l","a","t">>, <<"l","o","n">>, <<"S","t","a","t","u","s">>>>

\* String(row[h]) of a field
FieldText(row, h) ==
    IF h = "School" THEN row.School
    ELSE IF h = "Address" THEN row.Address
    ELSE IF h = "Group" THEN row.Group
    ELSE IF h = "lat" THEN NumToStr(row.lat)
    ELSE IF h = "lon" THEN NumToStr(row.lon)
    ELSE row.Status

RECURSIVE DoubleQuotes(_)
\* v.replace(/"/g, '""')
DoubleQuotes(v) ==
    IF v = <<>> THEN <<>>
    ELSE (IF Head(v) = "\"" THEN <<"\"", "\"">> ELSE <<Head(v)>>) \o DoubleQuotes(Tail(v))

csvValueNoQuoting(s) == s

\* the value a field contributes to its line (downloadCSV, the headers.map callback)
csvValue(s) ==
    LET v == DoubleQuotes(s)
    IN IF \E i \in 1..Len(v) : v[i] \in {"\"", ",", "\n"}
       THEN <<"\"">> \o v \o <<"\"">>
       ELSE v

csvLine(row) == Join([j \in 1..Len(headers) |-> csvValue(FieldText(row, headers[j]))], <<",">>)

csvTextVisibleOnly(data, chk, sel, box) ==
    Join(<<Join(headerText, <<",">>)>>
         \o [k \in 1..Len(VisibleRows(data, 1, chk, sel, box)) |->
                csvLine(data[VisibleRows(data, 1, chk, sel, box)[k].idx + 1])],
         <<"\n">>)

\* the text of the blob downloadCSV builds from DATA; the controls are not read
csvText(data, chk, sel, box) ==
    Join(<<Join(headerText, <<",">>)>> \o [k \in 1..Len(data) |-> csvLine(data[k])], <<"\n">>)

(***************************************************************************)
(* The records embedded in the page, and what the user can enter.          *)
(***************************************************************************)
FixtureRec(i) ==
    LET k == ((i - 1) % 4) + 1
    IN [uid |-> i,
        School |-> IF k = 1 THEN <<"E","l","m"," ","P","S">> ELSE IF k = 2 THEN <<"O","a","k">>
                   ELSE IF k = 3 THEN <<"B","i","r","c","h">> ELSE <<"P","i","n","e">>,
        Address |-> IF k = 1 THEN <<"1","2","3"," ","M","a","i","n"," ","S","t",","," ","A","p","t"," ","4">> ELSE IF k = 2 THEN <<"9"," ","E","l","m"," ","R","d">>
                    ELSE IF k = 3 THEN <<"1"," ","\"","B","\""," ","S","t">> ELSE <<"P","i","n","e","\n","R","d">>,
        Group |-> IF k = 1 THEN <<"H","R","C","E">> ELSE IF k = 2 THEN <<>>
                  ELSE IF k = 3 THEN <<"C","S","A","P">> ELSE <<"H","R","C","E">>,
        lat |-> 44650000 + 1000 * i,
        lon |-> -63570000 - 500000 * i,
        Status |-> IF k = 1 THEN sNone ELSE IF k = 2 THEN sRecent
                   ELSE IF k = 3 THEN sCurrent ELSE sNone]

InitialData(n) == [i \in 1..n |-> FixtureRec(i)]

\* what a popup button or any caller may pass to window._setStatus
StatusInputs == {sNone, sRecent, sCurrent, <<" ","A","c","t","i","v","e"," ">>, <<"b","o","g","u","s">>}
\* raw coordinates of a map click, in units of 1e-7 degree
ClickPoints == {[lat |-> 451234565, lng |-> -629876545]}
\* map.getCenter() of the page: folium.Map(location=[45.2, -62.99])
MapCenter == [lat |-> 452000000, lng |-> -629900000]
\* texts typed into the search box
SearchInputs == {<<>>, <<" ","E","L","M"," ">>, <<"p","s"," ","1","2">>}
\* what is entered into an add form before Save
FormInputs ==
    {[school |-> <<>>, address |-> <<>>, group |-> <<>>, status |-> sNone],
     [school |-> <<"Z","e","d">>, address |-> <<"7"," ","E","l","m",","," ","N","S">>, group |-> <<"A","V","R","C","E">>, status |-> sRecent]}
\* the text of the panel's address box
AddressInputs == {<<>>, <<" ","5"," ","O","a","k"," ","S","t"," ">>}

DefaultStatusChk == {sNone, sRecent, sCurrent}

NonEmptyGroups(data) == {data[i].Group : i \in 1..Len(data)} \ {<<>>}

(***************************************************************************)
(* Init: the page after init() has run on the embedded records.            *)
(***************************************************************************)
StoreInitWith(data) ==
    /\ DATA = [i \in 1..Len(data) |-> [data[i] EXCEPT !.Status = normalizeStatus(@)]]
    /\ statusChk = DefaultStatusChk
    /\ groupOptions = NonEmptyGroups(data)
    /\ groupSel = {}
    /\ searchBox = <<>>
    /\ markers = rebuildMarkersOf(data, DefaultStatusChk, {}, <<>>)
    /\ UNDO_STACK = <<>>
    /\ moveIndex = None
    /\ lastClickLL = None
    /\ addMode = FALSE
    /\ LIST_ON = FALSE
    /\ schoolList = <<>>
    /\ forms = <<>>
    /\ csvOut = None
    /\ toast = None
    /\ nextUid = Len(data) + 1
    /\ moveTarget = None
    /\ hist = [op |-> "init", snap |-> <<>>]
    /\ nOps = 0

StoreInit == \E n \in 0..MaxInit : StoreInitWith(InitialData(n))

(***************************************************************************)
(* Handlers.  Every handler run counts one operation and records itself in *)
(* hist; csvOut and toast hold what this run produced.                      *)
(***************************************************************************)
Ran(op, notice) ==
    /\ nOps < MaxOps
    /\ nOps' = nOps + 1
    /\ hist' = [op |-> op, snap |-> <<>>]
    /\ csvOut' = None
    /\ toast' = notice

\* applyFilters(map) with the controls as they are after the handler's own changes
Refresh(data, ms, chk, sel, box) ==
    /\ markers' = applyFiltersTo(ms, data, chk, sel, box)
    /\ schoolList' = rebuildListOf(data, LIST_ON, chk, sel, box)

\* markers[idx] && markers[idx].marker, then m.setStyle / m.setLatLng
withMarker(ms, idx, f(_)) ==
    [k \in 1..Len(ms) |-> IF k = idx + 1 THEN f(ms[k]) ELSE ms[k]]

setStatusNextRecord(idx, status) ==
    /\ nOps < MaxOps
    /\ nOps' = nOps + 1
    /\ hist' = [op |-> IF idx >= Len(DATA) THEN "setStatus_none" ELSE "setStatus",
                snap |-> <<idx, status>>]
    /\ csvOut' = None
    /\ toast' = None
    /\ IF idx >= Len(DATA)
       THEN UNCHANGED <<DATA, markers, schoolList>>
       ELSE LET s == normalizeStatus(status)
                d == [DATA EXCEPT ![idx + 2].Status = s]
                recolor(m) == [m EXCEPT !.color = colorOf(s)]
            IN /\ DATA' = d
               /\ Refresh(d, withMarker(markers, idx, recolor), statusChk, groupSel, searchBox)
    /\ UNCHANGED <<geo, UNDO_STACK, moveIndex, lastClickLL, addMode, LIST_ON, statusChk,
                   groupOptions, groupSel, searchBox, forms, nextUid, moveTarget>>

\* window._setStatus = function(idx, status)
setStatus(idx, status) ==
    /\ nOps < MaxOps
    /\ nOps' = nOps + 1
    /\ hist' = [op |-> IF idx >= Len(DATA) THEN "setStatus_none" ELSE "setStatus",
                snap |-> <<idx, status>>]
    /\ csvOut' = None
    /\ toast' = None
    /\ IF idx >= Len(DATA)
       THEN UNCHANGED <<DATA, markers, schoolList>>
       ELSE LET s == normalizeStatus(status)
                d == [DATA EXCEPT ![idx + 1].Status = s]
                recolor(m) == [m EXCEPT !.color = colorOf(s)]
            IN /\ DATA' = d
               /\ Refresh(d, withMarker(markers, idx, recolor), statusChk, groupSel, searchBox)
    /\ UNCHANGED <<geo, UNDO_STACK, moveIndex, lastClickLL, addMode, LIST_ON, statusChk,
                   groupOptions, groupSel, searchBox, forms, nextUid, moveTarget>>

RemoveFrom(s, i) == SubSeq(s, 1, i - 1)

\* s.splice(i - 1, 1)
RemoveAt(s, i) == SubSeq(s, 1, i - 1) \o SubSeq(s, i + 1, Len(s))
InsertAfter(s, i, x) ==
    SubSeq(s, 1, Min(i, Len(s))) \o <<x>> \o SubSeq(s, Min(i, Len(s)) + 1, Len(s))

\* s.splice(i - 1, 0, x)
InsertAt(s, i, x) == SubSeq(s, 1, i - 1) \o <<x>> \o SubSeq(s, i, Len(s))

\* window._delete = function(idx)
delete(idx) ==
    /\ nOps < MaxOps
    /\ nOps' = nOps + 1
    /\ csvOut' = None
    /\ IF idx >= Len(DATA)
       THEN /\ hist' = [op |-> "delete_none", snap |-> <<>>]
            /\ toast' = None
            /\ UNCHANGED <<DATA, markers, schoolList, UNDO_STACK>>
       ELSE LET rec == DATA[idx + 1]
                d == RemoveAt(DATA, idx + 1)
            IN /\ UNDO_STACK' = Append(UNDO_STACK, [type |-> "delete", rec |-> rec, idx |-> idx])
               /\ DATA' = d
               /\ markers' = rebuildMarkersOf(d, statusChk, groupSel, searchBox)
               /\ schoolList' = rebuildListOf(d, LIST_ON, statusChk, groupSel, searchBox)
               /\ hist' = [op |-> "delete", snap |-> DATA]
               /\ toast' = Some("Deleted. Click Undo Delete to restore.")
    /\ UNCHANGED <<geo, moveIndex, lastClickLL, addMode, LIST_ON, statusChk, groupOptions,
                   groupSel, searchBox, forms, nextUid, moveTarget>>

\* window._move = function(idx)
move(idx) ==
    /\ Ran("move", Some("Move mode: click on the map to set new location."))
    /\ moveIndex' = Some(idx)
    /\ moveTarget' = IF idx < Len(DATA) THEN Some(DATA[idx + 1].uid) ELSE None
    /\ UNCHANGED <<geo, DATA, markers, UNDO_STACK, lastClickLL, addMode, LIST_ON, schoolList,
                   statusChk, groupOptions, groupSel, searchBox, forms, nextUid>>

undoDeleteOldest(stack, data) ==
    LET action == stack[1]
        pos == Min(action.idx, Len(data))
    IN InsertAt(data, pos + 1, action.rec)

undoDeleteAtEnd(stack, data) == Append(data, stack[Len(stack)].rec)

\* undoDelete: DATA after the popped entry's record is put back
undoDeleteData(stack, data) ==
    LET action == stack[Len(stack)]
        pos == Min(action.idx, Len(data))
    IN InsertAt(data, pos + 1, action.rec)

undoDeletePeek ==
    /\ nOps < MaxOps
    /\ nOps' = nOps + 1
    /\ csvOut' = None
    /\ IF UNDO_STACK = <<>>
       THEN /\ toast' = Some("Nothing to undo.")
            /\ hist' = [op |-> "undo_none", snap |-> <<>>]
            /\ UNCHANGED <<DATA, markers, schoolList, UNDO_STACK>>
       ELSE LET d == undoDeleteData(UNDO_STACK, DATA)
            IN /\ UNDO_STACK' = UNDO_STACK
               /\ DATA' = d
               /\ markers' = rebuildMarkersOf(d, statusChk, groupSel, searchBox)
               /\ schoolList' = rebuildListOf(d, LIST_ON, statusChk, groupSel, searchBox)
               /\ toast' = Some("Restored.")
               /\ hist' = IF hist.op = "delete"
                          THEN [op |-> "delete_undo", snap |-> hist.snap]
                          ELSE [op |-> "undo", snap |-> <<>>]
    /\ UNCHANGED <<geo, moveIndex, lastClickLL, addMode, LIST_ON, statusChk, groupOptions,
                   groupSel, searchBox, forms, nextUid, moveTarget>>

undoDeleteDropsMove ==
    /\ nOps < MaxOps
    /\ nOps' = nOps + 1
    /\ csvOut' = None
    /\ moveIndex' = None
    /\ IF UNDO_STACK = <<>>
       THEN /\ toast' = Some("Nothing to undo.")
            /\ hist' = [op |-> "undo_none", snap |-> <<>>]
            /\ UNCHANGED <<DATA, markers, schoolList, UNDO_STACK>>
       ELSE LET d == undoDeleteData(UNDO_STACK, DATA)
            IN /\ UNDO_STACK' = SubSeq(UNDO_STACK, 1, Len(UNDO_STACK) - 1)
               /\ DATA' = d
               /\ markers' = rebuildMarkersOf(d, statusChk, groupSel, searchBox)
               /\ schoolList' = rebuildListOf(d, LIST_ON, statusChk, groupSel, searchBox)
               /\ toast' = Some("Restored.")
               /\ hist' = IF hist.op = "delete"
                          THEN [op |-> "delete_undo", snap |-> hist.snap]
                          ELSE [op |-> "undo", snap |-> <<>>]
    /\ UNCHANGED <<geo, lastClickLL, addMode, LIST_ON, statusChk, groupOptions,
                   groupSel, searchBox, forms, nextUid, moveTarget>>

\* function undoDelete()
undoDelete ==
    /\ nOps < MaxOps
    /\ nOps' = nOps + 1
    /\ csvOut' = None
    /\ IF UNDO_STACK = <<>>
       THEN /\ toast' = Some("Nothing to undo.")
            /\ hist' = [op |-> "undo_none", snap |-> <<>>]
            /\ UNCHANGED <<DATA, markers, schoolList, UNDO_STACK>>
       ELSE LET d == undoDeleteData(UNDO_STACK, DATA)
            IN /\ UNDO_STACK' = SubSeq(UNDO_STACK, 1, Len(UNDO_STACK) - 1)
               /\ DATA' = d
               /\ markers' = rebuildMarkersOf(d, statusChk, groupSel, searchBox)
               /\ schoolList' = rebuildListOf(d, LIST_ON, statusChk, groupSel, searchBox)
               /\ toast' = Some("Restored.")
               /\ hist' = IF hist.op = "delete"
                          THEN [op |-> "delete_undo", snap |-> hist.snap]
                          ELSE [op |-> "undo", snap |-> <<>>]
    /\ UNCHANGED <<geo, moveIndex, lastClickLL, addMode, LIST_ON, statusChk, groupOptions,
                   groupSel, searchBox, forms, nextUid, moveTarget>>

\* the form openAddForm(lat, lon, geocodedLL, usedAddress, usedGroup) opens: the
\* coordinates it shows are Number(lat).toFixed(6), Number(lon).toFixed(6)
addForm(lat, lon, usedAddress) ==
    [lat |-> toFixed6(lat), lon |-> toFixed6(lon), address |-> usedAddress]

mapClickHandlerKeepsMove(e) ==
    /\ nOps < MaxOps
    /\ nOps' = nOps + 1
    /\ csvOut' = None
    /\ lastClickLL' = Some(e)
    /\ IF IsSome(moveIndex)
       THEN LET idx == Val(moveIndex)
            IN /\ UNCHANGED <<moveIndex, moveTarget>>
               /\ IF idx < Len(DATA)
                  THEN LET d == [DATA EXCEPT ![idx + 1].lat = toFixed6(e.lat),
                                             ![idx + 1].lon = toFixed6(e.lng)]
                           place(m) == [m EXCEPT !.lat = e.lat, !.lng = e.lng]
                       IN /\ DATA' = d
                          /\ Refresh(d, withMarker(markers, idx, place),
                                     statusChk, groupSel, searchBox)
                          /\ toast' = Some("Moved.")
                          /\ hist' = [op |-> "click_moved", snap |-> <<>>]
                  ELSE /\ UNCHANGED <<DATA, markers, schoolList>>
                       /\ toast' = None
                       /\ hist' = [op |-> "click_move_none", snap |-> <<>>]
               /\ UNCHANGED forms
       ELSE /\ UNCHANGED <<moveIndex, moveTarget, DATA, markers, schoolList>>
            /\ toast' = None
            /\ IF ~addMode
               THEN /\ UNCHANGED forms
                    /\ hist' = [op |-> "click", snap |-> <<>>]
               ELSE /\ Len(forms) < MaxForms
                    /\ forms' = Append(forms, addForm(e.lat, e.lng, <<>>))
                    /\ hist' = [op |-> "click_add", snap |-> <<>>]
    /\ UNCHANGED <<geo, UNDO_STACK, addMode, LIST_ON, statusChk, groupOptions, groupSel,
                   searchBox, nextUid>>

\* function mapClickHandler(e)
mapClickHandler(e) ==
    /\ nOps < MaxOps
    /\ nOps' = nOps + 1
    /\ csvOut' = None
    /\ lastClickLL' = Some(e)
    /\ IF IsSome(moveIndex)
       THEN LET idx == Val(moveIndex)
            IN /\ moveIndex' = None
               /\ moveTarget' = None
               /\ IF idx < Len(DATA)
                  THEN LET d == [DATA EXCEPT ![idx + 1].lat = toFixed6(e.lat),
                                             ![idx + 1].lon = toFixed6(e.lng)]
                           place(m) == [m EXCEPT !.lat = e.lat, !.lng = e.lng]
                       IN /\ DATA' = d
                          /\ Refresh(d, withMarker(markers, idx, place),
                                     statusChk, groupSel, searchBox)
                          /\ toast' = Some("Moved.")
                          /\ hist' = [op |-> "click_moved", snap |-> <<>>]
                  ELSE /\ UNCHANGED <<DATA, markers, schoolList>>
                       /\ toast' = None
                       /\ hist' = [op |-> "click_move_none", snap |-> <<>>]
               /\ UNCHANGED forms
       ELSE /\ UNCHANGED <<moveIndex, moveTarget, DATA, markers, schoolList>>
            /\ toast' = None
            /\ IF ~addMode
               THEN /\ UNCHANGED forms
                    /\ hist' = [op |-> "click", snap |-> <<>>]
               ELSE /\ Len(forms) < MaxForms
                    /\ forms' = Append(forms, addForm(e.lat, e.lng, <<>>))
                    /\ hist' = [op |-> "click_add", snap |-> <<>>]
    /\ UNCHANGED <<geo, UNDO_STACK, addMode, LIST_ON, statusChk, groupOptions, groupSel,
                   searchBox, nextUid>>

saveFormUnshift(k, inp) ==
    /\ Ran("create", Some("Added!"))
    /\ LET form == forms[k]
           rec == [uid |-> nextUid,
                   School |-> IF inp.school = <<>> THEN <<"N","e","w"," ","L","o","c","a","t","i","o","n">> ELSE inp.school,
                   Address |-> IF inp.address = <<>> THEN form.address ELSE inp.address,
                   Group |-> inp.group,
                   lat |-> form.lat,
                   lon |-> form.lon,
                   Status |-> normalizeStatus(inp.status)]
           d == <<rec>> \o DATA
       IN /\ DATA' = d
          /\ groupOptions' = IF rec.Group # <<>> THEN groupOptions \cup {rec.Group}
                             ELSE groupOptions
          /\ Refresh(d, Append(markers, circleFor(rec, Len(d) - 1)),
                     statusChk, groupSel, searchBox)
    /\ forms' = RemoveAt(forms, k)
    /\ nextUid' = nextUid + 1
    /\ UNCHANGED <<geo, UNDO_STACK, moveIndex, lastClickLL, addMode, LIST_ON, statusChk,
                   groupSel, searchBox, moveTarget>>

\* form.querySelector('#f_save').onclick
\* the handler but for the frame of geo
f_save(k, inp) ==
    /\ Ran("create", Some("Added!"))
    /\ LET form == forms[k]
           rec == [uid |-> nextUid,
                   School |-> IF inp.school = <<>> THEN <<"N","e","w"," ","L","o","c","a","t","i","o","n">> ELSE inp.school,
                   Address |-> IF inp.address = <<>> THEN form.address ELSE inp.address,
                   Group |-> inp.group,
                   lat |-> form.lat,
                   lon |-> form.lon,
                   Status |-> normalizeStatus(inp.status)]
           d == Append(DATA, rec)
       IN /\ DATA' = d
          /\ groupOptions' = IF rec.Group # <<>> THEN groupOptions \cup {rec.Group}
                             ELSE groupOptions
          /\ Refresh(d, Append(markers, circleFor(rec, Len(d) - 1)),
                     statusChk, groupSel, searchBox)
    /\ forms' = RemoveAt(forms, k)
    /\ nextUid' = nextUid + 1
    /\ UNCHANGED <<UNDO_STACK, moveIndex, lastClickLL, addMode, LIST_ON, statusChk,
                   groupSel, searchBox, moveTarget>>

\* form.querySelector('#f_save').onclick
saveForm(k, inp) == f_save(k, inp) /\ UNCHANGED geo

\* form.querySelector('#f_cancel').onclick
f_cancel(k) ==
    /\ Ran("cancel", None)
    /\ forms' = RemoveAt(forms, k)
    /\ UNCHANGED <<DATA, markers, UNDO_STACK, moveIndex, lastClickLL, addMode, LIST_ON,
                   schoolList, statusChk, groupOptions, groupSel, searchBox, nextUid,
                   moveTarget>>

cancelForm(k) == f_cancel(k) /\ UNCHANGED geo

\* document.getElementById('btnUseClick').onclick
useClick(addr) ==
    /\ Ran("useClick", None)
    /\ Len(forms) < MaxForms
    /\ addMode' = TRUE
    /\ LET base == IF IsSome(lastClickLL) THEN Val(lastClickLL) ELSE MapCenter
       IN forms' = Append(forms, addForm(base.lat, base.lng, trim(addr)))
    /\ UNCHANGED <<geo, DATA, markers, UNDO_STACK, moveIndex, lastClickLL, LIST_ON, schoolList,
                   statusChk, groupOptions, groupSel, searchBox, nextUid, moveTarget>>

\* function toggleAddMode()
toggleAddMode ==
    /\ Ran("toggleAddMode", None)
    /\ addMode' = ~addMode
    /\ UNCHANGED <<geo, DATA, markers, UNDO_STACK, moveIndex, lastClickLL, LIST_ON, schoolList,
                   statusChk, groupOptions, groupSel, searchBox, forms, nextUid, moveTarget>>

\* function toggleList()
toggleList ==
    /\ Ran("toggleList", None)
    /\ LIST_ON' = ~LIST_ON
    /\ schoolList' = IF ~LIST_ON
                     THEN rebuildListOf(DATA, TRUE, statusChk, groupSel, searchBox)
                     ELSE schoolList
    /\ UNCHANGED <<geo, DATA, markers, UNDO_STACK, moveIndex, lastClickLL, addMode, statusChk,
                   groupOptions, groupSel, searchBox, forms, nextUid, moveTarget>>

\* a status check box is clicked: its 'change' listener runs applyFilters
statusChkChange(v) ==
    /\ Ran("statusChk", None)
    /\ LET chk == IF v \in statusChk THEN statusChk \ {v} ELSE statusChk \cup {v}
       IN /\ statusChk' = chk
          /\ Refresh(DATA, markers, chk, groupSel, searchBox)
    /\ UNCHANGED <<geo, DATA, UNDO_STACK, moveIndex, lastClickLL, addMode, LIST_ON,
                   groupOptions, groupSel, searchBox, forms, nextUid, moveTarget>>

\* the selection of the group selector is changed: its 'change' listener
groupSelChange(sel) ==
    /\ Ran("groupSel", None)
    /\ sel # groupSel
    /\ groupSel' = sel
    /\ Refresh(DATA, markers, statusChk, sel, searchBox)
    /\ UNCHANGED <<geo, DATA, UNDO_STACK, moveIndex, lastClickLL, addMode, LIST_ON, statusChk,
                   groupOptions, searchBox, forms, nextUid, moveTarget>>

\* document.getElementById('groupClear').onclick
groupClear ==
    /\ Ran("groupClear", None)
    /\ groupSel' = {}
    /\ Refresh(DATA, markers, statusChk, {}, searchBox)
    /\ UNCHANGED <<geo, DATA, UNDO_STACK, moveIndex, lastClickLL, addMode, LIST_ON, statusChk,
                   groupOptions, searchBox, forms, nextUid, moveTarget>>

\* document.getElementById('groupSelectAll').onclick
groupSelectAll ==
    /\ Ran("groupSelectAll", None)
    /\ groupSel' = groupOptions
    /\ Refresh(DATA, markers, statusChk, groupOptions, searchBox)
    /\ UNCHANGED <<geo, DATA, UNDO_STACK, moveIndex, lastClickLL, addMode, LIST_ON, statusChk,
                   groupOptions, searchBox, forms, nextUid, moveTarget>>

\* text is typed into the search box: no listener runs
typeSearch(q) ==
    /\ Ran("typeSearch", None)
    /\ q # searchBox
    /\ searchBox' = q
    /\ UNCHANGED <<geo, DATA, markers, UNDO_STACK, moveIndex, lastClickLL, addMode, LIST_ON,
                   schoolList, statusChk, groupOptions, groupSel, forms, nextUid,
                   moveTarget>>

\* btnSearch.onclick, and zoomFirst() of btnZoomFirst: applyFilters(map)
btnSearch ==
    /\ Ran("btnSearch", None)
    /\ Refresh(DATA, markers, statusChk, groupSel, searchBox)
    /\ UNCHANGED <<geo, DATA, UNDO_STACK, moveIndex, lastClickLL, addMode, LIST_ON, statusChk,
                   groupOptions, groupSel, searchBox, forms, nextUid, moveTarget>>

\* document.getElementById('btnClearSearch').onclick
btnClearSearch ==
    /\ nOps < MaxOps
    /\ nOps' = nOps + 1
    /\ hist' = [op |-> "btnClearSearch", snap |-> searchBox]
    /\ csvOut' = None
    /\ toast' = None
    /\ searchBox' = <<>>
    /\ Refresh(DATA, markers, statusChk, groupSel, <<>>)
    /\ UNCHANGED <<geo, DATA, UNDO_STACK, moveIndex, lastClickLL, addMode, LIST_ON, statusChk,
                   groupOptions, groupSel, forms, nextUid, moveTarget>>

\* function downloadCSV()
downloadCSV ==
    /\ nOps < MaxOps
    /\ nOps' = nOps + 1
    /\ hist' = [op |-> "download", snap |-> <<>>]
    /\ toast' = None
    /\ csvOut' = IF DATA = <<>> THEN None
                 ELSE Some(csvText(DATA, statusChk, groupSel, searchBox))
    /\ UNCHANGED <<geo, DATA, markers, UNDO_STACK, moveIndex, lastClickLL, addMode, LIST_ON,
                   schoolList, statusChk, groupOptions, groupSel, searchBox, forms,
                   nextUid, moveTarget>>

StoreNext ==
    \/ \E idx \in 0..Len(DATA), s \in StatusInputs : setStatus(idx, s)
    \/ \E idx \in 0..Len(DATA) : delete(idx)
    \/ \E idx \in 0..Len(DATA) : move(idx)
    \/ undoDelete
    \/ \E e \in ClickPoints : mapClickHandler(e)
    \/ \E k \in 1..Len(forms), inp \in FormInputs : saveForm(k, inp)
    \/ \E k \in 1..Len(forms) : cancelForm(k)
    \/ \E addr \in AddressInputs : useClick(addr)
    \/ toggleAddMode
    \/ toggleList
    \/ \E v \in DefaultStatusChk : statusChkChange(v)
    \/ \E sel \in SUBSET groupOptions : groupSelChange(sel)
    \/ groupClear
    \/ groupSelectAll
    \/ \E q \in SearchInputs : typeSearch(q)
    \/ btnSearch
    \/ btnClearSearch
    \/ downloadCSV


(***************************************************************************)
(* Reading a CSV text back by the rules of RFC 4180: fields are separated  *)
(* by commas and records by line breaks; a field that starts with a double *)
(* quote runs to its closing quote, and a doubled quote inside it stands   *)
(* for one quote.  A comma or a line break separates exactly when an even  *)
(* number of double quotes precedes it.  The export ends its lines with a  *)
(* bare line feed, which is read as the line break.                        *)
(***************************************************************************)
QuotesBefore(s, i) == Cardinality({j \in 1..(i - 1) : s[j] = "\""})
Separators(s, c) == {i \in 1..Len(s) : s[i] = c /\ QuotesBefore(s, i) % 2 = 0}

\* the k-th smallest element of a set of numbers
Nth(S, k) == CHOOSE p \in S : Cardinality({x \in S : x < p}) = k - 1

\* the pieces of s between the positions of P, in order
Pieces(s, P) ==
    [k \in 1..(Cardinality(P) + 1) |->
        SubSeq(s, IF k = 1 THEN 1 ELSE Nth(P, k - 1) + 1,
                  IF k = Cardinality(P) + 1 THEN Len(s) ELSE Nth(P, k) - 1)]

RECURSIVE SingleQuotes(_)
\* a doubled quote stands for one quote
SingleQuotes(v) ==
    IF v = <<>> THEN <<>>
    ELSE IF Len(v) >= 2 /\ v[1] = "\"" /\ v[2] = "\""
         THEN <<"\"">> \o SingleQuotes(SubSeq(v, 3, Len(v)))
         ELSE <<Head(v)>> \o SingleQuotes(Tail(v))

Unquoted(f) ==
    IF Len(f) >= 2 /\ f[1] = "\"" /\ f[Len(f)] = "\""
    THEN SingleQuotes(SubSeq(f, 2, Len(f) - 1))
    ELSE f

ParseLine(line) ==
    LET fs == Pieces(line, Separators(line, ","))
    IN [j \in 1..Len(fs) |-> Unquoted(fs[j])]

ParseCSV(s) ==
    LET ls == Pieces(s, Separators(s, "\n"))
    IN [k \in 1..Len(ls) |-> ParseLine(ls[k])]

\* the field values of a record, as texts, in the order of the header
FieldTexts(row) == [j \in 1..Len(headers) |-> FieldText(row, headers[j])]

(***************************************************************************)
(* Record sets for the export alone: field values with commas, double      *)
(* quotes and line feeds in every position.                                *)
(***************************************************************************)
MaxCsvRows == 2

CsvTexts == {<<>>, <<"a">>, <<",">>, <<"\"">>, <<"\n">>, <<"\"","a","\"",",","\n","\"">>}

CsvRecords ==
    {[uid |-> 0, School |-> s, Address |-> a, Group |-> <<"x",",","\"","y","\"">>,
      lat |-> 44650000, lon |-> -63570001, Status |-> sNone] :
        s \in CsvTexts, a \in CsvTexts}

RECURSIVE SeqsUpTo(_, _)
\* the sequences over S of length at most n
SeqsUpTo(S, n) ==
    IF n = 0 THEN {<<>>}
    ELSE LET shorter == SeqsUpTo(S, n - 1)
         IN shorter \cup {Append(q, x) : q \in {r \in shorter : Len(r) = n - 1}, x \in S}

WithUids(data) == [k \in 1..Len(data) |-> [data[k] EXCEPT !.uid = k]]

CsvInit == \E data \in SeqsUpTo(CsvRecords, MaxCsvRows) : StoreInitWith(WithUids(data))

(***************************************************************************)
(* Server side: the text operations of geocode_address.                    *)
(***************************************************************************)
UpperLetters == DOMAIN LowerOf
Letters == UpperLetters \cup {LowerOf[c] : c \in UpperLetters}
Digits == {Digit[i] : i \in 1..10}
\* \w of a regular expression
WordChars == Letters \cup Digits \cup {"_"}

\* [ABCEGHJ-NPRSTVXY] and [ABCEGHJ-NPRSTV-Z], letter case ignored (re.I)
PostalFirst ==
    LET up == {"A", "B", "C", "E", "G", "H", "J", "K", "L", "M", "N", "P", "R", "S", "T",
               "V", "X", "Y"}
    IN up \cup {LowerOf[c] : c \in up}
PostalLetter ==
    LET up == {"A", "B", "C", "E", "G", "H", "J", "K", "L", "M", "N", "P", "R", "S", "T",
               "V", "W", "X", "Y", "Z"}
    IN up \cup {LowerOf[c] : c \in up}

At(s, i) == IF i >= 1 /\ i <= Len(s) THEN s[i] ELSE ""

\* whether POSTAL_PAT matches at p with the last digit at p + n - 1
PostalMatch(s, p, n) ==
    LET gap == n - 6
    IN /\ p + n - 1 <= Len(s)
       /\ At(s, p - 1) \notin WordChars
       /\ s[p] \in PostalFirst
       /\ s[p + 1] \in Digits
       /\ s[p + 2] \in PostalLetter
       /\ gap = 1 => s[p + 3] \in WS
       /\ s[p + 3 + gap] \in Digits
       /\ s[p + 4 + gap] \in PostalLetter
       /\ s[p + 5 + gap] \in Digits
       /\ At(s, p + n) \notin WordChars

\* the positions of s that a match of POSTAL_PAT covers
PostalCovered(s) ==
    {i \in 1..Len(s) : \E p \in 1..i, n \in {6, 7} : i < p + n /\ PostalMatch(s, p, n)}

\* the characters of s at the positions of K, in order
Keep(s, K) == [k \in 1..Cardinality(K) |-> s[Nth(K, k)]]

\* POSTAL_PAT.sub("", s)
PostalSub(s) == Keep(s, (1..Len(s)) \ PostalCovered(s))

RECURSIVE ReplaceDoubleSpace(_)
\* s.replace("  ", " ")
ReplaceDoubleSpace(s) ==
    IF Len(s) < 2 THEN s
    ELSE IF s[1] = " " /\ s[2] = " " THEN <<" ">> \o ReplaceDoubleSpace(SubSeq(s, 3, Len(s)))
    ELSE <<s[1]>> \o ReplaceDoubleSpace(Tail(s))

\* s.strip(chars)
Strip(s, chars) ==
    LET inner == {i \in 1..Len(s) : s[i] \notin chars}
    IN IF inner = {} THEN <<>>
       ELSE SubSeq(s, CHOOSE i \in inner : \A j \in inner : i <= j,
                      CHOOSE i \in inner : \A j \in inner : j <= i)

\* Python's str.strip(): the characters str.isspace holds of (U+001F among them,
\* U+FEFF not)
PyWS == {" ", "\n", "\t", "\r", "U+001F"}

sNovaScotia == <<"N","o","v","a"," ","S","c","o","t","i","a">>
sShortTail == <<","," ","N","o","v","a"," ","S","c","o","t","i","a",","," ","C","a","n","a","d","a">>

\* whether ,\s*Nova Scotia matches at p, the white space being n characters
TailMatch(s, p, n) ==
    /\ p + n + Len(sNovaScotia) <= Len(s)
    /\ s[p] = ","
    /\ \A j \in 1..n : At(s, p + j) \in PyWS
    /\ SubSeq(s, p + n + 1, p + n + Len(sNovaScotia)) = sNovaScotia

RECURSIVE TailSub(_)
\* re.sub(r",\s*Nova Scotia.*", ", Nova Scotia, Canada", s): .* runs to the end of
\* the line
TailSub(s) ==
    LET starts == {p \in 1..Len(s) : \E n \in 0..Len(s) : TailMatch(s, p, n)}
    IN IF starts = {} THEN s
       ELSE LET p == CHOOSE x \in starts : \A y \in starts : x <= y
                n == CHOOSE k \in 0..Len(s) : TailMatch(s, p, k)
                ends == {e \in (p + n + Len(sNovaScotia) + 1)..Len(s) : s[e] = "\n"}
            IN IF ends = {} THEN SubSeq(s, 1, p - 1) \o sShortTail
               ELSE LET e == CHOOSE x \in ends : \A y \in ends : x <= y
                    IN SubSeq(s, 1, p - 1) \o sShortTail \o <<"\n">>
                       \o TailSub(SubSeq(s, e + 1, Len(s)))

InSeq(x, s) == \E i \in 1..Len(s) : s[i] = x

\* no_postal = POSTAL_PAT.sub("", address).replace("  ", " ").strip(", ").strip()
no_postal(address) == Strip(Strip(ReplaceDoubleSpace(PostalSub(address)), {",", " "}), PyWS)

\* short = re.sub(r",\s*Nova Scotia.*", ", Nova Scotia, Canada", address)
short(address) == TailSub(address)

geocodeVariantsShortFirst(address) ==
    LET v1 == <<address>>
        v2 == IF short(address) # address THEN Append(v1, short(address)) ELSE v1
    IN IF no_postal(address) # address /\ ~InSeq(no_postal(address), v2)
       THEN Append(v2, no_postal(address)) ELSE v2

\* the list variants of geocode_address
geocodeVariants(address) ==
    LET v1 == <<address>>
        v2 == IF no_postal(address) # address THEN Append(v1, no_postal(address)) ELSE v1
    IN IF short(address) # address /\ ~InSeq(short(address), v2)
       THEN Append(v2, short(address)) ELSE v2

(***************************************************************************)
(* normalize_address.  Its argument is a cell value: a text                *)
(* [kind |-> "text", s |-> chars], or a value that is no str (NaN, a       *)
(* number, None).                                                          *)
(***************************************************************************)
\* the number of characters of s from position p on that belong to set
Run(s, p, set) ==
    LET stops == {q \in p..(Len(s) + 1) : At(s, q) \notin set}
    IN (CHOOSE q \in stops : \A r \in stops : q <= r) - p

\* the literal w (given in lower case) at p, letter case ignored (re.I)
LitAt(s, p, w) ==
    /\ p + Len(w) - 1 <= Len(s)
    /\ toLowerCase(SubSeq(s, p, p + Len(w) - 1)) = w

\* \b between the characters q - 1 and q
Boundary(s, q) == (At(s, q - 1) \in WordChars) # (At(s, q) \in WordChars)

\* the length of the match of POBOX_PAT that starts at p, 0 if there is none:
\* \b(P\.?\s*O\.?\s*Box|PO\s*Box|Box\s+\d+)\b
PoBoxLen(s, p) ==
    LET a == p + 1 + (IF At(s, p + 1) = "." THEN 1 ELSE 0)
        b == a + Run(s, a, PyWS)
        c == b + 1 + (IF At(s, b + 1) = "." THEN 1 ELSE 0)
        d == c + Run(s, c, PyWS)
        ws == Run(s, p + 3, PyWS)
        ds == Run(s, p + 3 + ws, Digits)
    IN IF ~Boundary(s, p) THEN 0
       ELSE IF LitAt(s, p, <<"p">>) /\ LitAt(s, b, <<"o">>) /\ LitAt(s, d, <<"b", "o", "x">>)
               /\ Boundary(s, d + 3)
       THEN d + 3 - p
       ELSE IF LitAt(s, p, <<"b", "o", "x">>) /\ ws > 0 /\ ds > 0
               /\ Boundary(s, p + 3 + ws + ds)
       THEN 3 + ws + ds
       ELSE 0

\* the length of the match of RR_PAT that starts at p, 0 if there is none:
\* \bRR\s*\d+\b
RrLen(s, p) ==
    LET ws == Run(s, p + 2, PyWS)
        ds == Run(s, p + 2 + ws, Digits)
    IN IF Boundary(s, p) /\ LitAt(s, p, <<"r", "r">>) /\ ds > 0 /\ Boundary(s, p + 2 + ws + ds)
       THEN 2 + ws + ds
       ELSE 0

\* the length of the match of STN_PAT that starts at p, 0 if there is none:
\* \bStn\.?\b, the dot taken when a word character follows it
StnLen(s, p) ==
    IF ~(Boundary(s, p) /\ LitAt(s, p, <<"s", "t", "n">>)) THEN 0
    ELSE IF At(s, p + 3) = "." /\ Boundary(s, p + 4) THEN 4
    ELSE IF Boundary(s, p + 3) THEN 3
    ELSE 0

\* the one element of a set of one element
Only(S) == CHOOSE x \in S : TRUE

RECURSIVE SubMatches(_, _, _, _)
\* pattern.sub(repl, s) from position p on, m[q] being the length of the match
\* that starts at q: matches are replaced from the left, none overlapping
SubMatches(s, m, repl, p) ==
    IF p > Len(s) THEN <<>>
    ELSE IF m[p] > 0 THEN repl \o Only({SubMatches(s, m, repl, q) : q \in {p + m[p]}})
    ELSE <<s[p]>> \o SubMatches(s, m, repl, p + 1)

sStation == <<"S","t","a","t","i","o","n">>
sNS == <<"N","S">>
sCanada == <<"C","a","n","a","d","a">>

\* s = POBOX_PAT.sub("", s)
SubPoBox(s) == SubMatches(s, [p \in 1..Len(s) |-> PoBoxLen(s, p)], <<>>, 1)

\* s = RR_PAT.sub("", s)
SubRr(s) == SubMatches(s, [p \in 1..Len(s) |-> RrLen(s, p)], <<>>, 1)

\* s = STN_PAT.sub("Station", s)
SubStn(s) == SubMatches(s, [p \in 1..Len(s) |-> StnLen(s, p)], sStation, 1)

\* re.sub(r"\s+", " ", s)
CollapseSpace(s) == SubMatches(s, [p \in 1..Len(s) |-> Run(s, p, PyWS)], <<" ">>, 1)

\* re.search(r"\bNS\b", s)
SearchNS(s) ==
    \E p \in 1..(Len(s) - 1) :
        SubSeq(s, p, p + 1) = sNS /\ Boundary(s, p) /\ Boundary(s, p + 2)

\* s.replace(old, new)
Replace(s, old, new) ==
    SubMatches(s, [p \in 1..Len(s) |->
                      IF p + Len(old) - 1 <= Len(s) /\ SubSeq(s, p, p + Len(old) - 1) = old
                      THEN Len(old) ELSE 0], new, 1)

AddRegionElse(s) ==
    IF ~includes(s, sNovaScotia) /\ SearchNS(s)
    THEN Replace(s, <<" ">> \o sNS, <<",", " ">> \o sNovaScotia)
    ELSE IF ~includes(s, sNovaScotia) THEN s \o <<",", " ">> \o sNovaScotia
    ELSE s

\* the two statements of normalize_address that see to "Nova Scotia"
AddRegion(s) ==
    LET t == IF ~includes(s, sNovaScotia) /\ SearchNS(s)
             THEN Replace(s, <<" ">> \o sNS, <<",", " ">> \o sNovaScotia)
             ELSE s
    IN IF ~includes(t, sNovaScotia) THEN t \o <<",", " ">> \o sNovaScotia ELSE t

\* if "Canada" not in s: s += ", Canada"
AddCountry(s) == IF ~includes(s, sCanada) THEN s \o <<",", " ">> \o sCanada ELSE s

\* def normalize_address(addr): each statement applied to the value of the one
\* before it
normalize_address(addr) ==
    IF addr.kind # "text" THEN <<>>
    ELSE Only({AddCountry(g) : g \in
            {AddRegion(f) : f \in
              {Strip(Strip(e, {",", " "}), PyWS) : e \in
                {CollapseSpace(d) : d \in
                  {SubStn(c) : c \in
                    {SubRr(b) : b \in
                      {SubPoBox(a) : a \in {Strip(addr.s, PyWS)}}}}}}}})
(***************************************************************************)
(* Server side: the batch run of main() and geocode_address inside it.     *)
(* A Python float is [nan |-> FALSE, v |-> n] for the number n (in units   *)
(* of 1e-6) or NaN; Python's None is <<>> and a present value x is <<x>>.  *)
(* The dict cache is a sequence of entries in insertion order.  geo is the *)
(* whole state of the run:                                                 *)
(*   pc       "row" (at the head of the row loop), "geocode" (inside       *)
(*            geocode_address, before a service call), "done", "raised"    *)
(*            (an exception left main), "idle" (no run)                    *)
(*   args     no_cache, regeocode_failed; has_latlon of the input table    *)
(*   retries, backoff   the parameters of geocode_address                  *)
(*   rows, r  the input table and the index of the row being resolved      *)
(*   cache, disk, lats, lons, failed   as in main                          *)
(*   inv      the current (or last) invocation of geocode_address          *)
(*   log      per row begun: the cache entry found for its address, whether *)
(*            its own coordinates were taken, whether the service was called*)
(*   records, reference   the rows build_map embeds and the reference      *)
(*            table, once the run is done                                  *)
(***************************************************************************)
MaxRetries == 3     \* retries of geocode_address, from 1
MaxRows == 2        \* rows of the input table
Backoff == 2        \* backoff: float = 2.0, in seconds
SaveEvery == 25     \* len(cache) % 25 == 0

Num(n) == [nan |-> FALSE, v |-> n]
NaN == [nan |-> TRUE, v |-> 0]
Null2 == <<None, None>>

\* what one call of the rate-limited geocode function can do: return a location,
\* return nothing, or raise GeocoderTimedOut, GeocoderUnavailable or another error
TransientErrors == {"timeout", "unavailable"}
ServiceOutcomes ==
    {[kind |-> "loc", lat |-> 44650000, lon |-> -63570000]}
    \cup {[kind |-> k, lat |-> 0, lon |-> 0] : k \in {"empty", "timeout", "unavailable", "error"}}

exceptClauseTransientOnly(kind) == IF kind \in TransientErrors THEN "transient" ELSE "none"

\* the except clause of geocode_address that handles a raised error: the first
\* names GeocoderTimedOut and GeocoderUnavailable, the second Exception
exceptClause(kind) == IF kind \in TransientErrors THEN "transient" ELSE "exception"

sleepForFlat(backoff, i) == backoff

\* time.sleep(backoff * (i + 1)), in both except clauses
sleepFor(backoff, i) == backoff * (i + 1)

\* ---- the cache ----
InCache(c, a) == \E k \in 1..Len(c) : c[k].address = a
CacheGet(c, a) == c[CHOOSE k \in 1..Len(c) : c[k].address = a].val
CachePutIfAbsent(c, a, v) ==
    IF InCache(c, a) THEN c ELSE Append(c, [address |-> a, val |-> v])

\* cache[a] = v
CachePut(c, a, v) ==
    IF InCache(c, a)
    THEN [k \in 1..Len(c) |-> IF c[k].address = a THEN [c[k] EXCEPT !.val = v] ELSE c[k]]
    ELSE Append(c, [address |-> a, val |-> v])

\* a cell of the cache table: None and NaN are written as an empty cell
CacheCell(x) == IF x = None \/ Val(x).nan THEN None ELSE Some(Val(x).v)

save_cacheKeepExisting(disk, c) ==
    IF c = <<>> \/ disk # None THEN disk
    ELSE Some([k \in 1..Len(c) |->
                 [address |-> c[k].address, lat |-> CacheCell(c[k].val[1]),
                  lon |-> CacheCell(c[k].val[2])]])

\* def save_cache(cache_path, cache): the table on disk afterwards
save_cache(disk, c) ==
    IF c = <<>> THEN disk
    ELSE Some([k \in 1..Len(c) |->
                 [address |-> c[k].address, lat |-> CacheCell(c[k].val[1]),
                  lon |-> CacheCell(c[k].val[2])]])

RECURSIVE LoadRows(_, _)
LoadRows(table, out) ==
    IF table = <<>> THEN out
    ELSE LET row == Head(table)
             lat == IF row.lat = None THEN None ELSE Some(Num(Val(row.lat)))
             lon == IF row.lon = None THEN None ELSE Some(Num(Val(row.lon)))
         IN LoadRows(Tail(table), CachePut(out, row.address, <<lat, lon>>))

\* def load_cache(cache_path)
load_cache(disk) == IF disk = None THEN <<>> ELSE LoadRows(Val(disk), <<>>)

\* ---- the input table ----
\* float(cell) of a lat/lon cell: a number, NaN for a blank cell, or a ValueError
\* (<<>> here) for text
CellNum(n) == [kind |-> "num", v |-> n]
CellBlank == [kind |-> "nan", v |-> 0]
CellText == [kind |-> "text", v |-> 0]
FloatOf(cell) ==
    IF cell.kind = "num" THEN Some(Num(cell.v))
    ELSE IF cell.kind = "nan" THEN Some(NaN)
    ELSE None

InputRow(k) ==
    LET j == ((k - 1) % 4) + 1
    IN [School |-> IF j = 1 THEN <<"E","l","m"," ","P","S">> ELSE IF j = 2 THEN <<"O","a","k">>
                   ELSE IF j = 3 THEN <<"B","i","r","c","h">> ELSE <<"P","i","n","e">>,
        Address |-> IF j = 1 THEN <<"9"," ","E","l","m"," ","N","S"," ","B","3","H"," ","1","A","1">> ELSE IF j = 2 THEN <<"O","a","k"," ","R","d">>
                    ELSE IF j = 3 THEN <<"E","l","m",","," ","N","o","v","a"," ","S","c","o","t","i","a",","," ","C","a","n","a","d","a"," ","B","3","H","1","A","1">>
                    ELSE <<"7"," ","P","i","n","e",","," ","N","o","v","a"," ","S","c","o","t","i","a",","," ","K","i","n","g","s">>,
        \* df["__full_addr__"]
        full_addr |-> IF j = 1 THEN <<"9"," ","E","l","m",","," ","N","o","v","a"," ","S","c","o","t","i","a"," ","B","3","H"," ","1","A","1",","," ","C","a","n","a","d","a">>
                      ELSE IF j = 2 THEN <<"O","a","k"," ","R","d",","," ","N","o","v","a"," ","S","c","o","t","i","a",","," ","C","a","n","a","d","a">>
                      ELSE IF j = 3 THEN <<"E","l","m",","," ","N","o","v","a"," ","S","c","o","t","i","a",","," ","C","a","n","a","d","a"," ","B","3","H","1","A","1">>
                      ELSE <<"7"," ","P","i","n","e",","," ","N","o","v","a"," ","S","c","o","t","i","a",","," ","K","i","n","g","s",","," ","C","a","n","a","d","a">>,
        lat |-> IF j = 1 THEN CellText ELSE IF j = 2 THEN CellNum(45100000)
                ELSE IF j = 3 THEN CellBlank ELSE CellNum(44900000),
        lon |-> IF j = 1 THEN CellNum(-63000000) ELSE IF j = 2 THEN CellNum(-64200000)
                ELSE IF j = 3 THEN CellBlank ELSE CellText]

\* the input files; df after df.head(args.max) is the first n rows of the file
InputFiles == {1, 2}
InputTable(file, n) == [k \in 1..n |-> InputRow(2 * (file - 1) + k)]

\* the cache tables a run may find on disk: none, or one left by an earlier run
DiskTables ==
    {None,
     Some(<<[address |-> <<"9"," ","E","l","m",","," ","N","o","v","a"," ","S","c","o","t","i","a"," ","B","3","H"," ","1","A","1",","," ","C","a","n","a","d","a">>, lat |-> None, lon |-> None],
            [address |-> <<"O","a","k"," ","R","d",","," ","N","o","v","a"," ","S","c","o","t","i","a",","," ","C","a","n","a","d","a">>,
             lat |-> Some(44700000), lon |-> Some(-63100000)]>>)}

NoInvocation ==
    [address |-> <<>>, variants |-> <<>>, vi |-> 0, i |-> 0, attempts |-> <<>>,
     slept |-> 0, lastCall |-> None, onlyTimeouts |-> TRUE, hit |-> None,
     callsAfterHit |-> 0, ret |-> None]

GeoInit ==
    \E retries \in 1..MaxRetries, file \in InputFiles, n \in 0..MaxRows,
       no_cache \in BOOLEAN, regeocode_failed \in BOOLEAN, has_latlon \in BOOLEAN,
       disk \in DiskTables :
        geo = [pc |-> "row",
               args |-> [no_cache |-> no_cache, regeocode_failed |-> regeocode_failed,
                         has_latlon |-> has_latlon],
               retries |-> retries, backoff |-> Backoff,
               rows |-> InputTable(file, n), r |-> 1,
               cache |-> IF no_cache THEN <<>> ELSE load_cache(disk),
               disk |-> disk,
               lats |-> <<>>, lons |-> <<>>, failed |-> <<>>,
               inv |-> NoInvocation,
               log |-> <<>>, records |-> <<>>, reference |-> <<>>]

\* main, from lats.append(lat) to the end of the loop body
EndRow(g, lat, lon, c) ==
    LET row == g.rows[g.r]
    IN [g EXCEPT
          !.pc = "row",
          !.r = g.r + 1,
          !.cache = c,
          !.lats = Append(g.lats, lat),
          !.lons = Append(g.lons, lon),
          !.failed = IF lat = None \/ lon = None
                     THEN Append(g.failed, [School |-> row.School, Address |-> row.Address,
                                            Normalized |-> row.full_addr])
                     ELSE g.failed,
          !.disk = IF ~g.args.no_cache /\ Len(c) % SaveEvery = 0
                   THEN save_cache(g.disk, c) ELSE g.disk]

ReturnedWithoutCaching(g, inv, lat, lon) ==
    EndRow([g EXCEPT !.inv = [inv EXCEPT !.ret = Some(<<lat, lon>>)]], lat, lon, g.cache)

ReturnedCachingPairs(g, inv, lat, lon) ==
    EndRow([g EXCEPT !.inv = [inv EXCEPT !.ret = Some(<<lat, lon>>)]], lat, lon,
           IF ~g.args.no_cache /\ lat # None /\ lon # None
           THEN CachePut(g.cache, g.rows[g.r].full_addr, <<lat, lon>>)
           ELSE g.cache)

\* main after geocode_address has returned <<lat, lon>>
Returned(g, inv, lat, lon) ==
    EndRow([g EXCEPT !.inv = [inv EXCEPT !.ret = Some(<<lat, lon>>)]], lat, lon,
           IF ~g.args.no_cache THEN CachePut(g.cache, g.rows[g.r].full_addr, <<lat, lon>>)
           ELSE g.cache)

\* main: one pass of the row loop up to the call of geocode_address, or through
\* the whole body when the row needs no geocoding
rowStep ==
    /\ geo.pc = "row"
    /\ geo.r <= Len(geo.rows)
    /\ LET row == geo.rows[geo.r]
           addr == row.full_addr
           a == geo.args
           ok == a.has_latlon /\ FloatOf(row.lat) # None /\ FloatOf(row.lon) # None
           prev_lat == IF ok THEN FloatOf(row.lat) ELSE None
           prev_lon == IF ok THEN FloatOf(row.lon) ELSE None
           cached == ~a.no_cache /\ InCache(geo.cache, addr)
           entry == CacheGet(geo.cache, addr)
           g == [geo EXCEPT !.log = Append(@, [found |-> IF cached THEN Some(entry) ELSE None,
                                               given |-> prev_lat # None /\ prev_lon # None,
                                               called |-> FALSE])]
       IN IF prev_lat # None /\ prev_lon # None
          THEN geo' = EndRow(g, prev_lat, prev_lon,
                             IF ~a.no_cache THEN CachePut(geo.cache, addr, <<prev_lat, prev_lon>>)
                             ELSE geo.cache)
          ELSE IF cached /\ entry[1] # None /\ entry[2] # None
          THEN geo' = EndRow(g, entry[1], entry[2], geo.cache)
          ELSE IF cached /\ (entry[1] = None \/ entry[2] = None) /\ ~a.regeocode_failed
          THEN geo' = EndRow(g, entry[1], entry[2], geo.cache)
          ELSE LET vs == geocodeVariants(addr)
                   inv == [NoInvocation EXCEPT !.address = addr, !.variants = vs, !.vi = 1,
                                               !.attempts = [k \in 1..Len(vs) |-> 0]]
               IN IF geo.retries = 0
                  THEN geo' = Returned(g, inv, None, None)
                  ELSE geo' = [g EXCEPT !.pc = "geocode", !.inv = inv]
    /\ UNCHANGED storeVars

serviceCallUntilAnswered(o) ==
    /\ geo.pc = "geocode"
    /\ LET inv == geo.inv
           clause == exceptClause(o.kind)
           raised == o.kind \notin {"loc", "empty"}
           sleep == IF raised /\ clause # "none" THEN sleepFor(geo.backoff, inv.i) ELSE 0
           called == [inv EXCEPT
                        !.attempts[inv.vi] = @ + 1,
                        !.slept = @ + sleep,
                        !.lastCall = Some([vi |-> inv.vi, k |-> inv.i + 1, out |-> o.kind,
                                           sleep |-> sleep]),
                        !.onlyTimeouts = @ /\ o.kind = "timeout",
                        !.hit = IF inv.hit = None /\ o.kind = "loc"
                                THEN Some(<<Some(Num(o.lat)), Some(Num(o.lon))>>) ELSE @,
                        !.callsAfterHit = IF inv.hit # None THEN @ + 1 ELSE @]
           g == [geo EXCEPT !.log[geo.r].called = TRUE]
       IN IF o.kind = "loc"
          THEN geo' = Returned(g, called, Some(Num(o.lat)), Some(Num(o.lon)))
          ELSE IF raised /\ clause = "none"
          THEN geo' = [g EXCEPT !.pc = "raised", !.inv = called]
          ELSE IF inv.i + 1 < geo.retries \/ raised
          THEN geo' = [g EXCEPT !.inv = [called EXCEPT !.i = inv.i + 1]]
          ELSE IF inv.vi < Len(inv.variants)
          THEN geo' = [g EXCEPT !.inv = [called EXCEPT !.vi = inv.vi + 1, !.i = 0]]
          ELSE geo' = Returned(g, called, None, None)
    /\ UNCHANGED storeVars

\* geocode_address: one pass of the inner loop, the call _geocode_once(geocode_fn, v)
\* having the outcome o
serviceCall(o) ==
    /\ geo.pc = "geocode"
    /\ LET inv == geo.inv
           clause == exceptClause(o.kind)
           raised == o.kind \notin {"loc", "empty"}
           sleep == IF raised /\ clause # "none" THEN sleepFor(geo.backoff, inv.i) ELSE 0
           called == [inv EXCEPT
                        !.attempts[inv.vi] = @ + 1,
                        !.slept = @ + sleep,
                        !.lastCall = Some([vi |-> inv.vi, k |-> inv.i + 1, out |-> o.kind,
                                           sleep |-> sleep]),
                        !.onlyTimeouts = @ /\ o.kind = "timeout",
                        !.hit = IF inv.hit = None /\ o.kind = "loc"
                                THEN Some(<<Some(Num(o.lat)), Some(Num(o.lon))>>) ELSE @,
                        !.callsAfterHit = IF inv.hit # None THEN @ + 1 ELSE @]
           g == [geo EXCEPT !.log[geo.r].called = TRUE]
       IN IF o.kind = "loc"
          THEN geo' = Returned(g, called, Some(Num(o.lat)), Some(Num(o.lon)))
          ELSE IF raised /\ clause = "none"
          THEN geo' = [g EXCEPT !.pc = "raised", !.inv = called]
          ELSE IF inv.i + 1 < geo.retries
          THEN geo' = [g EXCEPT !.inv = [called EXCEPT !.i = inv.i + 1]]
          ELSE IF inv.vi < Len(inv.variants)
          THEN geo' = [g EXCEPT !.inv = [called EXCEPT !.vi = inv.vi + 1, !.i = 0]]
          ELSE geo' = Returned(g, called, None, None)
    /\ UNCHANGED storeVars

\* pd.isna of a value of the lat or lon column: None and NaN
isna(x) == x = None \/ Val(x).nan

\* df with df["lat"] = lats; df["lon"] = lons: the reference table
ReferenceTable(g) ==
    [k \in 1..Len(g.rows) |->
        [School |-> g.rows[k].School, Address |-> g.rows[k].Address,
         lat |-> g.lats[k], lon |-> g.lons[k]]]

\* df.dropna(subset=["lat","lon"]), in main and again in build_map
dropna(table) ==
    LET HasBoth(rec) == ~isna(rec.lat) /\ ~isna(rec.lon)
    IN SelectSeq(table, HasBoth)

\* main after the row loop: the unconditional save_cache, the reference table and
\* the records of the map
mainFinish ==
    /\ geo.pc = "row"
    /\ geo.r > Len(geo.rows)
    /\ geo' = [geo EXCEPT !.pc = "done",
                          !.disk = IF ~geo.args.no_cache THEN save_cache(geo.disk, geo.cache)
                                   ELSE geo.disk,
                          !.reference = ReferenceTable(geo),
                          !.records = dropna(dropna(ReferenceTable(geo)))]
    /\ UNCHANGED storeVars

GeoNext ==
    \/ rowStep
    \/ \E o \in ServiceOutcomes : serviceCall(o)
    \/ mainFinish

(***************************************************************************)
(* The cache alone: save_cache followed by load_cache, from any cache and  *)
(* any table left on disk.  Here geo is                                    *)
(*   [pc |-> "start" | "saved" | "loaded", cache, disk, loaded]            *)
(***************************************************************************)
MaxCacheKeys == 2   \* keys of the cache saved

CacheAddresses ==
    {<<"O","a","k"," ","R","d",","," ","N","o","v","a"," ","S","c","o","t","i","a",","," ","C","a","n","a","d","a">>, <<"9"," ","E","l","m",","," ","N","o","v","a"," ","S","c","o","t","i","a"," ","B","3","H"," ","1","A","1",","," ","C","a","n","a","d","a">>,
     <<"7"," ","P","i","n","e",","," ","N","o","v","a"," ","S","c","o","t","i","a",","," ","K","i","n","g","s",","," ","C","a","n","a","d","a">>}

\* the values of a cache entry: a failure, or coordinates
CacheValues ==
    {Null2, <<Some(Num(44700000)), Some(Num(-63100000))>>,
     <<Some(Num(45100001)), Some(Num(-64200001))>>}

\* the dicts of at most n keys, in every insertion order
RECURSIVE CacheMaps(_)
CacheMaps(n) ==
    IF n = 0 THEN {<<>>}
    ELSE LET smaller == CacheMaps(n - 1)
         IN smaller \cup
            {Append(c, [address |-> a, val |-> v]) :
                c \in {m \in smaller : Len(m) = n - 1},
                a \in CacheAddresses, v \in CacheValues}

DistinctKeys(c) == \A i, j \in 1..Len(c) : c[i].address = c[j].address => i = j

CacheInit ==
    \E c \in {m \in CacheMaps(MaxCacheKeys) : DistinctKeys(m)}, disk \in DiskTables :
        geo = [pc |-> "start", cache |-> c, disk |-> disk, loaded |-> <<>>]

\* save_cache(cache_path, cache)
saveCache ==
    /\ geo.pc = "start"
    /\ geo' = [geo EXCEPT !.pc = "saved", !.disk = save_cache(geo.disk, geo.cache)]
    /\ UNCHANGED storeVars

\* load_cache(cache_path)
loadCache ==
    /\ geo.pc = "saved"
    /\ geo' = [geo EXCEPT !.pc = "loaded", !.loaded = load_cache(geo.disk)]
    /\ UNCHANGED storeVars

CacheNext == saveCache \/ loadCache

(***************************************************************************)
(* The row loop of main seen through the size of the cache: how many keys  *)
(* it has and how many of the writes of this run the table on disk does    *)
(* not have yet.  Here geo is [pc |-> "batch", len, unsaved, rows].        *)
(***************************************************************************)
MaxBatchRows == 26  \* rows of a run
MaxLoaded == 2      \* keys loaded from disk

BatchInit ==
    \E n \in 0..MaxLoaded : geo = [pc |-> "batch", len |-> n, unsaved |-> 0, rows |-> 0]

\* the end of the loop body: if not args.no_cache and len(cache) % 25 == 0: save_cache
EndOfIteration(len, unsaved) == IF len % SaveEvery = 0 THEN 0 ELSE unsaved

\* a row that writes cache[addr] for an address the cache does not have
rowNewKey ==
    /\ geo.pc = "batch" /\ geo.rows < MaxBatchRows
    /\ geo' = [geo EXCEPT !.len = @ + 1, !.rows = @ + 1,
                          !.unsaved = EndOfIteration(geo.len + 1, geo.unsaved + 1)]
    /\ UNCHANGED storeVars

\* a row that writes a new value for an address the cache has: given coordinates,
\* or a failure geocoded again
rowOverwrite ==
    /\ geo.pc = "batch" /\ geo.rows < MaxBatchRows
    /\ geo.len > 0
    /\ geo' = [geo EXCEPT !.rows = @ + 1,
                          !.unsaved = EndOfIteration(geo.len, geo.unsaved + 1)]
    /\ UNCHANGED storeVars

\* a row that takes its result from the cache
rowReuse ==
    /\ geo.pc = "batch" /\ geo.rows < MaxBatchRows
    /\ geo.len > 0
    /\ geo' = [geo EXCEPT !.rows = @ + 1,
                          !.unsaved = EndOfIteration(geo.len, geo.unsaved)]
    /\ UNCHANGED storeVars

BatchNext == rowNewKey \/ rowOverwrite \/ rowReuse

(***************************************************************************)
(* Status: derive_status and normalize_status_value on the server,         *)
(* normalizeStatus in the page.  A cell of a row is text, NaN (an empty    *)
(* cell of a column that exists) or absent (no such column).  Here geo is  *)
(*   [pc |-> "status", row, derived, server, client]                      *)
(***************************************************************************)
TextCell(s) == [kind |-> "text", s |-> s]
NaNCell == [kind |-> "nan", s |-> <<>>]
AbsentCell == [kind |-> "absent", s |-> <<>>]

\* str(row.get(col, "")): the text, "nan" for NaN, "" for a column that is not there
PyStr(cell) ==
    IF cell.kind = "text" THEN cell.s
    ELSE IF cell.kind = "nan" THEN <<"n","a","n">>
    ELSE <<>>

\* String(s || ''): NaN and undefined give ''
JsString(cell) == IF cell.kind = "text" THEN cell.s ELSE <<>>

\* str.lower()
lower(s) == [i \in 1..Len(s) |-> IF s[i] \in DOMAIN LowerOf THEN LowerOf[s[i]] ELSE s[i]]

\* def normalize_status_value(val), val given as its str(val)
normalize_status_value(val) ==
    LET v == lower(Strip(val, PyWS))
    IN IF v \in {sCurrent, sActive, sBoth} THEN sCurrent
       ELSE IF v = sRecent THEN sRecent
       ELSE sNone

Truthy == {<<"1">>, <<"t","r","u","e">>, <<"y","e","s">>, <<"y">>}

\* def derive_status(row)
derive_status(row) ==
    LET raw == lower(Strip(PyStr(row.Status), PyWS))
        recent == lower(Strip(PyStr(row.Recent), PyWS)) \in Truthy
        active == lower(Strip(PyStr(row.Current), PyWS)) \in Truthy
    IN IF raw # <<>> THEN normalize_status_value(raw)
       ELSE IF active THEN sCurrent
       ELSE IF recent THEN sRecent
       ELSE sNone

\* the Status cells of a row
StatusCells ==
    {AbsentCell, NaNCell} \cup
    {TextCell(s) : s \in {<<>>, <<" ">>, sNone, sCurrent, sBoth,
                          <<"R","e","c","e","n","t">>,
                          <<" ","A","C","T","I","V","E","\t">>,
                          <<"b","o","g","u","s">>,
                          <<"c","u","r","r","e","n","t","U+001F">>,
                          <<"U+FEFF","a","c","t","i","v","e">>}}

\* the Recent Relationship and Current Work cells of a row
RecentCells == {AbsentCell, NaNCell, TextCell(<<"y","e","s">>), TextCell(<<"N","o">>),
                TextCell(<<" ","Y"," ">>)}
CurrentCells == {AbsentCell, TextCell(<<"T","R","U","E">>), TextCell(<<"0">>),
                 TextCell(<<"1">>)}

StatusInit ==
    \E st \in StatusCells, rc \in RecentCells, cu \in CurrentCells :
        geo = [pc |-> "status", row |-> [Status |-> st, Recent |-> rc, Current |-> cu],
               derived |-> None, server |-> None, client |-> None]

\* main: df[STATUS_COL] = df.apply(derive_status, axis=1)
deriveStatus ==
    /\ geo.pc = "status" /\ geo.derived = None
    /\ geo' = [geo EXCEPT !.derived = Some(derive_status(geo.row))]
    /\ UNCHANGED storeVars

\* build_map: df[STATUS_COL].apply(normalize_status_value)
serverNormalize ==
    /\ geo.pc = "status" /\ geo.server = None
    /\ geo' = [geo EXCEPT !.server = Some(normalize_status_value(PyStr(geo.row.Status)))]
    /\ UNCHANGED storeVars

\* init: rec.Status = normalizeStatus(rec.Status)
clientNormalize ==
    /\ geo.pc = "status" /\ geo.client = None
    /\ geo' = [geo EXCEPT !.client = Some(normalizeStatus(JsString(geo.row.Status)))]
    /\ UNCHANGED storeVars

StatusNext == deriveStatus \/ serverNormalize \/ clientNormalize

(***************************************************************************)
(* normalize_address applied to a value and again to its own result.  Here *)
(* geo is [pc |-> "normalize", x, once, twice].                            *)
(***************************************************************************)
MaxWords == 3

\* the pieces the address texts are put together from
AddressWords ==
    {<<"P","O"," ","B","o","x">>, <<"B","o","x">>, <<"1","2">>, <<"R","R"," ","2">>, <<"S","t","n">>, <<"E","l","m",",">>, sNS, sNovaScotia, sCanada,
     <<"\t">>}

\* the texts of n words, one blank between two words
WordTexts(n) ==
    {Join(ws, <<" ">>) : ws \in [1..n -> AddressWords]}

\* values that are no str: NaN, a number, None
NonStrings == {NaNCell, [kind |-> "num", s |-> <<>>], AbsentCell}

AddressValues ==
    NonStrings \cup {TextCell(t) : t \in UNION {WordTexts(n) : n \in 0..MaxWords}}

NormalizeInit ==
    \E x \in AddressValues : geo = [pc |-> "normalize", x |-> x, once |-> None, twice |-> None]

\* normalize_address(x)
normalizeOnce ==
    /\ geo.pc = "normalize"
    /\ geo.once = None
    /\ geo' = [geo EXCEPT !.once = Some(normalize_address(geo.x))]
    /\ UNCHANGED storeVars

\* normalize_address(normalize_address(x))
normalizeAgain ==
    /\ geo.pc = "normalize"
    /\ geo.once # None
    /\ geo.twice = None
    /\ geo' = [geo EXCEPT !.twice = Some(normalize_address(TextCell(Val(geo.once))))]
    /\ UNCHANGED storeVars

NormalizeNext == normalizeOnce \/ normalizeAgain

(***************************************************************************)
(* The batch run on a sheet whose address cells may be blank: the address  *)
(* column is a text, NaN (an empty cell) or a text of white space.         *)
(***************************************************************************)
AddressCells == {TextCell(<<"O","a","k"," ","R","d">>), NaNCell, TextCell(<<" ">>)}

\* a row of df: df["__full_addr__"] = df[address_col].astype(str).map(normalize_address)
AddressRow(cell) ==
    [School |-> <<"O","a","k">>, Address |-> cell,
     full_addr |-> normalize_address(TextCell(PyStr(cell))),
     lat |-> CellBlank, lon |-> CellBlank]

AddressInit ==
    \E n \in 1..MaxRows, retries \in 1..MaxRetries, no_cache \in BOOLEAN :
      \E cells \in [1..n -> AddressCells] :
        geo = [pc |-> "row",
               args |-> [no_cache |-> no_cache, regeocode_failed |-> FALSE,
                         has_latlon |-> FALSE],
               retries |-> retries, backoff |-> Backoff,
               rows |-> [k \in 1..n |-> AddressRow(cells[k])], r |-> 1,
               cache |-> <<>>,
               disk |-> None,
               lats |-> <<>>, lons |-> <<>>, failed |-> <<>>,
               inv |-> NoInvocation,
               log |-> <<>>, records |-> <<>>, reference |-> <<>>]
(***************************************************************************)
(* Deletes followed by undos: from the page as loaded, or as it is after   *)
(* one record was deleted, the list view on or off, up to MaxPairs deletes at valid indices and     *)
(* then as many undos.  Here geo is [pc |-> "undo", base], base being DATA *)
(* and UNDO_STACK before the first of the deletes.                         *)
(***************************************************************************)
MaxPairs == 3

\* the page after window._delete(i) on the loaded records, or as loaded (i = -1)
UndoBase(n, i) ==
    LET loaded == [k \in 1..n |-> [InitialData(n)[k] EXCEPT !.Status = normalizeStatus(@)]]
    IN IF i < 0 THEN [DATA |-> loaded, UNDO_STACK |-> <<>>]
       ELSE [DATA |-> RemoveAt(loaded, i + 1),
             UNDO_STACK |-> <<[type |-> "delete", rec |-> loaded[i + 1], idx |-> i]>>]

UndoInit ==
    \E n \in 0..MaxInit : \E i \in -1..(n - 1) : \E listOn \in BOOLEAN :
        LET base == UndoBase(n, i)
        IN /\ DATA = base.DATA
           /\ UNDO_STACK = base.UNDO_STACK
           /\ geo = [pc |-> "undo", base |-> base]
           /\ statusChk = DefaultStatusChk
           /\ groupOptions = NonEmptyGroups(InitialData(n))
           /\ groupSel = {}
           /\ searchBox = <<>>
           /\ markers = rebuildMarkersOf(base.DATA, DefaultStatusChk, {}, <<>>)
           /\ moveIndex = None
           /\ lastClickLL = None
           /\ addMode = FALSE
           /\ LIST_ON = listOn
           /\ schoolList = rebuildListOf(base.DATA, listOn, DefaultStatusChk, {}, <<>>)
           /\ forms = <<>>
           /\ csvOut = None
           /\ toast = None
           /\ nextUid = n + 1
           /\ moveTarget = None
           /\ hist = [op |-> "init", snap |-> <<>>]
           \* the count of handler runs leaves room for MaxPairs deletes and undos
           /\ nOps = MaxOps - 2 * MaxPairs

\* the deletes of the run so far that are not undone
Pending == Len(UNDO_STACK) - Len(geo.base.UNDO_STACK)

\* window._delete at a valid index, no undo having happened yet
deleteInRun ==
    /\ hist.op \in {"init", "delete"}
    /\ Pending < MaxPairs
    /\ \E idx \in 0..(Len(DATA) - 1) : delete(idx)

\* undoDelete, while a delete of the run is not undone
undoInRun ==
    /\ hist.op # "init"
    /\ Pending > 0
    /\ undoDelete

UndoNext == deleteInRun \/ undoInRun
(***************************************************************************)
(* Address lookups of the page: geocodeClient is awaited by the panel's    *)
(* Geocode button and by the Geocode button of an add form, so each lookup *)
(* is a start step and, after any other handlers, a resolve step.  Here    *)
(* geo is [pc |-> "lookup", started, pending, done, closed, span]:         *)
(*   started  the number of lookups begun,                                 *)
(*   pending  the lookups awaiting geocodeClient: [id, form, q], form = 0  *)
(*            for the panel and else the add form, numbered by creation,   *)
(*   done     the resolved lookups in the order they resolved,             *)
(*   closed   the add forms removed from the document (saved, cancelled),  *)
(*   span     the text of #f_geo_status of each add form.                  *)
(* An add form is a DOM element: a resolving lookup writes to the element  *)
(* it was started on, in the document or not.                              *)
(***************************************************************************)
MaxLookups == 2

\* what geocodeClient resolves to: null, or {lat, lon} in units of 1e-7 degree
LookupResults ==
    {None, Some([lat |-> 446488625, lon |-> -635752385]),
           Some([lat |-> 459000004, lon |-> -610000004])}

\* the value of #f_address when the form's Geocode is clicked, prefilled or typed
FormAddresses(form) == {form.address, <<"7"," ","E","l","m",","," ","N","S">>}

FormOrdinals == 1..(MaxOps + MaxLookups)

LookupInit ==
    /\ \E n \in 0..MaxInit : StoreInitWith(InitialData(n))
    /\ geo = [pc |-> "lookup", started |-> 0, pending |-> {}, done |-> <<>>,
              closed |-> {}, span |-> [f \in FormOrdinals |-> ""]]

\* the add forms in the document, by creation; forms holds them in this order
OpenForms == (1..(Len(forms) + Cardinality(geo.closed))) \ geo.closed

\* the add form at forms[k]
Ord(k) == CHOOSE f \in OpenForms : Cardinality({g \in OpenForms : g < f}) = k - 1

\* the place in forms of the open add form f
Pos(f) == Cardinality({g \in OpenForms : g <= f})

Resolved(p, ll) ==
    [geo EXCEPT !.pending = @ \ {p},
                !.done = Append(@, [id |-> p.id, form |-> p.form, ll |-> ll])]

\* document.getElementById('btnGeocode').onclick, up to the await
btnGeocode(addr) ==
    /\ geo.started < MaxLookups
    /\ addMode' = TRUE
    /\ IF trim(addr) = <<>>
       THEN /\ geo' = geo
            /\ hist' = [op |-> "btnGeocode_empty", snap |-> <<>>]
       ELSE /\ geo' = [geo EXCEPT !.started = @ + 1,
                                  !.pending = @ \cup {[id |-> geo.started + 1, form |-> 0,
                                                       q |-> trim(addr)]}]
            /\ hist' = [op |-> "btnGeocode", snap |-> <<>>]
    /\ UNCHANGED <<DATA, markers, UNDO_STACK, moveIndex, lastClickLL, LIST_ON, schoolList,
                   statusChk, groupOptions, groupSel, searchBox, forms, csvOut, toast,
                   nextUid, moveTarget, nOps>>

btnGeocodeAtCenter(p, ll) ==
    /\ p \in geo.pending /\ p.form = 0
    /\ Len(forms) < MaxForms
    /\ forms' = Append(forms, IF IsSome(ll)
                              THEN addForm(Val(ll).lat, Val(ll).lon, p.q)
                              ELSE addForm(MapCenter.lat, MapCenter.lng, p.q))
    /\ geo' = Resolved(p, ll)
    /\ hist' = [op |-> IF IsSome(ll) THEN "panel_found" ELSE "panel_failed",
                snap |-> <<p.id>>]
    /\ UNCHANGED <<DATA, markers, UNDO_STACK, moveIndex, lastClickLL, addMode, LIST_ON,
                   schoolList, statusChk, groupOptions, groupSel, searchBox, csvOut, toast,
                   nextUid, moveTarget, nOps>>

\* document.getElementById('btnGeocode').onclick, from the await on
btnGeocodeResolved(p, ll) ==
    /\ p \in geo.pending /\ p.form = 0
    /\ Len(forms) < MaxForms
    /\ forms' = Append(forms,
                       IF IsSome(ll)
                       THEN addForm(Val(ll).lat, Val(ll).lon, p.q)
                       ELSE LET base == IF IsSome(lastClickLL) THEN Val(lastClickLL)
                                        ELSE MapCenter
                            IN addForm(base.lat, base.lng, p.q))
    /\ geo' = Resolved(p, ll)
    /\ hist' = [op |-> IF IsSome(ll) THEN "panel_found" ELSE "panel_failed",
                snap |-> <<p.id>>]
    /\ UNCHANGED <<DATA, markers, UNDO_STACK, moveIndex, lastClickLL, addMode, LIST_ON,
                   schoolList, statusChk, groupOptions, groupSel, searchBox, csvOut, toast,
                   nextUid, moveTarget, nOps>>

\* doGeocodeToForm(form), up to the await
doGeocodeToForm(k, q) ==
    /\ geo.started < MaxLookups
    /\ geo' = [geo EXCEPT !.started = @ + 1,
                          !.pending = @ \cup {[id |-> geo.started + 1, form |-> Ord(k),
                                               q |-> q]},
                          !.span[Ord(k)] = "Looking up U+2026"]
    /\ hist' = [op |-> "formGeocode", snap |-> <<geo.started + 1, Ord(k)>>]
    /\ UNCHANGED <<DATA, markers, UNDO_STACK, moveIndex, lastClickLL, addMode, LIST_ON,
                   schoolList, statusChk, groupOptions, groupSel, searchBox, forms, csvOut,
                   toast, nextUid, moveTarget, nOps>>

\* the lookups of form f that resolved with a result
Found(f) == {i \in 1..Len(geo.done) : geo.done[i].form = f /\ IsSome(geo.done[i].ll)}

FormResolvedOp(p, ll) ==
    [op |-> (IF p.form \in geo.closed THEN "late_" ELSE "form_")
            \o (IF IsSome(ll) THEN "found" ELSE "failed"),
     snap |-> <<p.id, p.form>>]

doGeocodeLatestStarted(p, ll) ==
    /\ p \in geo.pending /\ p.form > 0
    /\ p.q = <<>> => ll = None
    /\ forms' = IF IsSome(ll) /\ p.form \notin geo.closed
                   /\ \A i \in Found(p.form) : geo.done[i].id < p.id
                THEN [forms EXCEPT ![Pos(p.form)].lat = toFixed6(Val(ll).lat),
                                   ![Pos(p.form)].lon = toFixed6(Val(ll).lon)]
                ELSE forms
    /\ geo' = [Resolved(p, ll) EXCEPT !.span[p.form] =
                   IF IsSome(ll) THEN "Found U+2713" ELSE "Not found (using map/cursor)"]
    /\ hist' = FormResolvedOp(p, ll)
    /\ UNCHANGED <<DATA, markers, UNDO_STACK, moveIndex, lastClickLL, addMode, LIST_ON,
                   schoolList, statusChk, groupOptions, groupSel, searchBox, csvOut, toast,
                   nextUid, moveTarget, nOps>>

doGeocodeByPlace(p, ll) ==
    /\ p \in geo.pending /\ p.form > 0
    /\ p.q = <<>> => ll = None
    /\ forms' = IF IsSome(ll) /\ forms # <<>>
                THEN [forms EXCEPT ![Len(forms)].lat = toFixed6(Val(ll).lat),
                                   ![Len(forms)].lon = toFixed6(Val(ll).lon)]
                ELSE forms
    /\ geo' = [Resolved(p, ll) EXCEPT !.span[p.form] =
                   IF IsSome(ll) THEN "Found U+2713" ELSE "Not found (using map/cursor)"]
    /\ hist' = FormResolvedOp(p, ll)
    /\ UNCHANGED <<DATA, markers, UNDO_STACK, moveIndex, lastClickLL, addMode, LIST_ON,
                   schoolList, statusChk, groupOptions, groupSel, searchBox, csvOut, toast,
                   nextUid, moveTarget, nOps>>

\* doGeocodeToForm(form), from the await on
doGeocodeResolved(p, ll) ==
    /\ p \in geo.pending /\ p.form > 0
    \* geocodeClient: if (!q) return null
    /\ p.q = <<>> => ll = None
    /\ forms' = IF IsSome(ll) /\ p.form \notin geo.closed
                THEN [forms EXCEPT ![Pos(p.form)].lat = toFixed6(Val(ll).lat),
                                   ![Pos(p.form)].lon = toFixed6(Val(ll).lon)]
                ELSE forms
    /\ geo' = [Resolved(p, ll) EXCEPT !.span[p.form] =
                   IF IsSome(ll) THEN "Found U+2713" ELSE "Not found (using map/cursor)"]
    /\ hist' = FormResolvedOp(p, ll)
    /\ UNCHANGED <<DATA, markers, UNDO_STACK, moveIndex, lastClickLL, addMode, LIST_ON,
                   schoolList, statusChk, groupOptions, groupSel, searchBox, csvOut, toast,
                   nextUid, moveTarget, nOps>>

\* #f_save of the add form at forms[k]; form.remove() takes it out of the document
saveOpenForm(k, inp) ==
    /\ f_save(k, inp)
    /\ geo' = [geo EXCEPT !.closed = @ \cup {Ord(k)}]

\* #f_cancel of the add form at forms[k]
cancelOpenForm(k) ==
    /\ f_cancel(k)
    /\ geo' = [geo EXCEPT !.closed = @ \cup {Ord(k)}]

LookupNext ==
    \/ \E addr \in AddressInputs : btnGeocode(addr)
    \/ \E p \in geo.pending, ll \in LookupResults : btnGeocodeResolved(p, ll)
    \/ \E k \in 1..Len(forms) : \E q \in FormAddresses(forms[k]) : doGeocodeToForm(k, q)
    \/ \E p \in geo.pending, ll \in LookupResults : doGeocodeResolved(p, ll)
    \/ \E k \in 1..Len(forms), inp \in FormInputs : saveOpenForm(k, inp)
    \/ \E k \in 1..Len(forms) : cancelOpenForm(k)
    \/ \E idx \in 0..(Len(DATA) - 1) : setStatus(idx, sCurrent)
    \/ \E idx \in 0..(Len(DATA) - 1) : delete(idx)
    \/ \E idx \in 0..(Len(DATA) - 1) : move(idx)
    \/ undoDelete
    \/ \E e \in ClickPoints : mapClickHandler(e)
(***************************************************************************)
(* The batch run over an input whose rows share one address, with the      *)
(* cache in use, and then a second run of main over the same input with    *)
(* the cache table the first run left and --regeocode-failed off.  geo is  *)
(* the state of the run as above, with run (1 or 2) added.                 *)
(***************************************************************************)
\* n rows of one address: of file 1 without usable coordinates, of file 2 with
RepeatTable(file, n) == [k \in 1..n |-> InputRow(file)]

RepeatInit ==
    \E retries \in 1..MaxRetries, file \in InputFiles, n \in 0..MaxRows,
       regeocode_failed \in BOOLEAN, has_latlon \in BOOLEAN, disk \in DiskTables :
        geo = [pc |-> "row",
               args |-> [no_cache |-> FALSE, regeocode_failed |-> regeocode_failed,
                         has_latlon |-> has_latlon],
               retries |-> retries, backoff |-> Backoff,
               rows |-> RepeatTable(file, n), r |-> 1,
               cache |-> load_cache(disk),
               disk |-> disk,
               lats |-> <<>>, lons |-> <<>>, failed |-> <<>>,
               inv |-> NoInvocation,
               log |-> <<>>, records |-> <<>>, reference |-> <<>>,
               run |-> 1]

\* main again, on the same input: cache = load_cache(cache_path), then the row loop
secondRun ==
    /\ geo.pc = "done"
    /\ geo.run = 1
    /\ geo' = [geo EXCEPT !.pc = "row", !.run = 2, !.r = 1,
                          !.args.regeocode_failed = FALSE,
                          !.cache = load_cache(geo.disk),
                          !.lats = <<>>, !.lons = <<>>, !.failed = <<>>,
                          !.inv = NoInvocation,
                          !.log = <<>>, !.records = <<>>, !.reference = <<>>]
    /\ UNCHANGED storeVars

RepeatNext == GeoNext \/ secondRun
(***************************************************************************)
(* Specifications.                                                         *)
(***************************************************************************)
GeoIdle == [pc |-> "idle"]

\* the page: every handler of the marker store and of the view
Init == StoreInit /\ geo = GeoIdle
Next == StoreNext
Spec == Init /\ [][Next]_vars

\* the export alone, from any record set
CsvNext == downloadCSV
InitCsv == CsvInit /\ geo = GeoIdle
SpecCsv == InitCsv /\ [][CsvNext]_vars

\* the batch run: main's row loop with geocode_address, against a service that may
\* answer, answer nothing or fail at every call
InitGeo == StoreInitWith(<<>>) /\ GeoInit
SpecGeo == InitGeo /\ [][GeoNext]_vars


\* the cache round trip
InitCache == StoreInitWith(<<>>) /\ CacheInit
SpecCache == InitCache /\ [][CacheNext]_vars

\* the saving schedule of the row loop
InitBatch == StoreInitWith(<<>>) /\ BatchInit
SpecBatch == InitBatch /\ [][BatchNext]_vars

\* the status of a row: derived and normalized on the server, normalized in the page
InitStatus == StoreInitWith(<<>>) /\ StatusInit
SpecStatus == InitStatus /\ [][StatusNext]_vars


\* normalize_address on texts and on values that are no text
InitNormalize == StoreInitWith(<<>>) /\ NormalizeInit
SpecNormalize == InitNormalize /\ [][NormalizeNext]_vars

\* the batch run on rows whose address cell may be blank
InitAddress == StoreInitWith(<<>>) /\ AddressInit
SpecAddress == InitAddress /\ [][GeoNext]_vars

\* deletes followed by as many undos
InitUndo == UndoInit
SpecUndo == InitUndo /\ [][UndoNext]_vars

\* the page with its address lookups
InitLookup == LookupInit
SpecLookup == InitLookup /\ [][LookupNext]_vars

\* the batch run, every service call returning or raising in the end
SpecGeoFair ==
    InitGeo /\ [][GeoNext]_vars /\ WF_vars(\E o \in ServiceOutcomes : serviceCall(o))

\* two runs of the batch over rows that share an address
InitRepeat == StoreInitWith(<<>>) /\ RepeatInit
SpecRepeat == InitRepeat /\ [][RepeatNext]_vars
(***************************************************************************)
(* Properties of the marker store and the view.                            *)
(***************************************************************************)
NoDuplicates(data) == \A i, j \in 1..Len(data) : data[i].uid = data[j].uid => i = j

\* C1: Delete(i) followed immediately by UndoDelete leaves the record collection
\* equal to its value before the delete: the restored record has the same field
\* values and sits at index i, and no record appears twice.
C1_DeleteThenUndoRestores ==
    hist.op = "delete_undo" => DATA = hist.snap /\ NoDuplicates(DATA)

C1_Witness ==
    /\ hist.op = "delete_undo"
    /\ Len(DATA) >= 3
    /\ DATA = hist.snap

CoordsOf(data, u) == <<RecByUid(data, u).lat, RecByUid(data, u).lon>>
CoordsChanged(u) == HasUid(DATA, u) /\ HasUid(DATA', u) /\ CoordsOf(DATA', u) # CoordsOf(DATA, u)

\* C2: after Move is requested for a record r, the next map click changes the
\* lat/lon of r and of no other record, whatever Delete, UndoDelete, Create and
\* UpdateStatus operations happen in between; if r has been deleted in between, no
\* record's coordinates change.
C2_MoveCommitsToRequestedRecord ==
    [][(IsSome(moveIndex) /\ IsSome(moveTarget) /\ moveIndex' = None) =>
          LET r == Val(moveTarget)
              e == Val(lastClickLL')
          IN /\ \A i \in 1..Len(DATA) : CoordsChanged(DATA[i].uid) => DATA[i].uid = r
             /\ HasUid(DATA, r) =>
                    /\ HasUid(DATA', r)
                    /\ CoordsOf(DATA', r) = <<toFixed6(e.lat), toFixed6(e.lng)>>]_vars

\* the visibility the specification states, with the search text as the search
\* reads it (trimmed, letters folded)
StatedVisible(rec) ==
    LET q == toLowerCase(trim(searchBox))
    IN /\ normalizeStatus(rec.Status) \in statusChk
       /\ (groupSel = {} \/ rec.Group \in groupSel)
       /\ \/ q = <<>>
          \/ includes(toLowerCase(rec.School), q)
          \/ includes(toLowerCase(rec.Address), q)

\* C3: a record is visible if and only if its normalized status is checked, and no
\* group is selected or its group is selected, and the search text is empty or is a
\* case-insensitive substring of the school name or of the address.
C3_VisibleIffStated ==
    \A i \in 1..Len(DATA) :
        visiblePredicate(DATA[i], statusChk, groupSel, searchBox) <=> StatedVisible(DATA[i])

DefaultFilter == statusChk = DefaultStatusChk /\ groupSel = {} /\ searchBox = <<>>

\* the handler runs that end in applyFilters
AppliesFilters ==
    {"init", "setStatus", "delete", "delete_undo", "undo", "click_moved", "create",
     "statusChk", "groupSel", "groupClear", "groupSelectAll", "btnSearch", "btnClearSearch"}

\* C4: with the filter in its default state (all status boxes checked, no group
\* selected, empty search text) every record of the store is visible, whatever was
\* filtered or searched before; once a handler has applied the filter, every record
\* has its marker on the map.
C4_DefaultFilterShowsAll ==
    DefaultFilter =>
        /\ \A i \in 1..Len(DATA) : visiblePredicate(DATA[i], statusChk, groupSel, searchBox)
        /\ hist.op \in AppliesFilters =>
              /\ Len(markers) = Len(DATA)
              /\ \A k \in 1..Len(markers) : markers[k].shown /\ markers[k].rec = DATA[k].uid

C4_Witness ==
    /\ DefaultFilter
    /\ hist.op = "btnClearSearch"
    /\ hist.snap # <<>>
    /\ Len(DATA) >= 2
    /\ \A k \in 1..Len(markers) : markers[k].shown

\* C5: the CSV export holds the header and then exactly one data row per record of
\* the store, in store order and in the column order School, Address, Group, lat,
\* lon, Status, whatever the filter hides; records on the undo stack are not
\* exported.  (With an empty store the handler returns before it builds a file.)
C5_ExportIsTheStore ==
    /\ (hist.op = "download" /\ DATA # <<>>) => IsSome(csvOut)
    /\ IsSome(csvOut) =>
          ParseCSV(Val(csvOut)) = <<headerText>> \o [k \in 1..Len(DATA) |-> FieldTexts(DATA[k])]

C5_Witness ==
    /\ IsSome(csvOut)
    /\ UNDO_STACK # <<>>
    /\ Len(DATA) >= 2
    /\ \E i \in 1..Len(DATA) : ~visiblePredicate(DATA[i], statusChk, groupSel, searchBox)

\* C6: for record sets whose field values contain commas, double quotes and line
\* feeds, reading the exported text back by the rules of RFC 4180 yields as many
\* records as were exported, each with the field values it was exported with.
C6_ExportRoundTrip ==
    IsSome(csvOut) =>
        LET back == ParseCSV(Val(csvOut))
        IN /\ Len(back) = Len(DATA) + 1
           /\ \A k \in 1..Len(DATA) :
                 /\ Len(back[k + 1]) = Len(headers)
                 /\ \A j \in 1..Len(headers) : back[k + 1][j] = FieldText(DATA[k], headers[j])

C6_Witness ==
    /\ IsSome(csvOut)
    /\ Len(DATA) = 2
    /\ DATA[1].School = <<"\"","a","\"",",","\n","\"">>
    /\ DATA[1].Address = <<",">>
    /\ DATA[2].School = <<"\n">>
    /\ DATA[2].Address = <<"\"">>

Canonical == {sNone, sRecent, sCurrent}
Recognized(s) == toLowerCase(trim(s)) \in {sNone, sRecent, sCurrent, sActive, sBoth}

\* C18: after init and after every operation, the status of every record of the
\* store and of every record on the undo stack is none, recent or current, and a
\* status input that is not recognized is stored as none.
C18_StatusIsCanonical ==
    /\ \A i \in 1..Len(DATA) : DATA[i].Status \in Canonical
    /\ \A i \in 1..Len(UNDO_STACK) : UNDO_STACK[i].rec.Status \in Canonical
    /\ (hist.op = "setStatus" /\ ~Recognized(hist.snap[2])) =>
           DATA[hist.snap[1] + 1].Status = sNone

\* a record that was recent has just been given an unrecognized status, while a
\* deleted record waits on the undo stack
C18_Witness ==
    /\ hist.op = "setStatus" /\ ~Recognized(hist.snap[2])
    /\ UNDO_STACK # <<>>
    /\ DATA[hist.snap[1] + 1].uid = 2
    /\ DATA[hist.snap[1] + 1].Status = sNone

(***************************************************************************)
(* Claims about geocode_address and the batch run.                         *)
(***************************************************************************)
\* the invocation of geocode_address in progress, or the last one that returned
Called == geo.inv.variants # <<>>
HasReturned == geo.inv.ret # None
Triangle(n) == (n * (n + 1)) \div 2

\* the calls made so far are those of a variant-major, attempt-minor walk: every
\* variant before the current one has had all its attempts, the later ones none
VariantMajor ==
    LET inv == geo.inv
    IN geo.pc = "geocode" =>
         \A v \in 1..Len(inv.variants) :
            inv.attempts[v] = IF v < inv.vi THEN geo.retries
                              ELSE IF v = inv.vi THEN inv.i ELSE 0

\* C7: when every service call times out, geocode_address with retries = R makes
\* exactly R attempts on each variant, variant after variant, sleeps backoff * k
\* after the k-th attempt of a variant, so that the sleeps add up to
\* (number of variants) * backoff * R * (R + 1) / 2, and then returns (None, None).
C7_AllTimeoutsSchedule ==
    LET inv == geo.inv
        R == geo.retries
    IN (Called /\ inv.onlyTimeouts) =>
         /\ VariantMajor
         /\ inv.lastCall # None => Val(inv.lastCall).sleep = geo.backoff * Val(inv.lastCall).k
         /\ geo.pc = "geocode" =>
              /\ inv.slept = geo.backoff * ((inv.vi - 1) * Triangle(R) + Triangle(inv.i))
              /\ inv.i < R
         /\ HasReturned =>
              /\ \A v \in 1..Len(inv.variants) : inv.attempts[v] = R
              /\ inv.slept = Len(inv.variants) * geo.backoff * Triangle(R)
              /\ inv.ret = Some(Null2)

\* three variants, three attempts each, all timed out
C7_Witness ==
    /\ HasReturned /\ geo.inv.onlyTimeouts
    /\ Len(geo.inv.variants) = 3 /\ geo.retries = 3
    /\ geo.inv.attempts = <<3, 3, 3>>
    /\ geo.inv.slept = 36

\* C8: a call that fails with an error other than a timeout or an unavailable
\* service ends the attempts on that variant, without a sleep: the next call, if
\* any, is on the next variant; a transient failure sleeps backoff * k.
C8_NonTransientEndsVariant ==
    LET inv == geo.inv
        last == Val(inv.lastCall)
    IN (Called /\ inv.lastCall # None) =>
         /\ last.out = "error" =>
              /\ last.sleep = 0
              /\ geo.pc = "geocode" => inv.vi = last.vi + 1 /\ inv.i = 0
         /\ last.out \in TransientErrors => last.sleep = geo.backoff * last.k

\* the lists of variants the three forms of an address can give, in the stated order
StatedVariants(a) ==
    LET np == no_postal(a)
        sh == short(a)
    IN IF np # a /\ sh # a /\ sh # np THEN <<a, np, sh>>
       ELSE IF np # a THEN <<a, np>>
       ELSE IF sh # a THEN <<a, sh>>
       ELSE <<a>>

\* C9: geocode_address tries the address as given, then without its postal code,
\* then shortened; it returns the coordinates of the first call, in variant-major
\* and attempt-minor order, that yields a location, and makes no call after it; it
\* returns (None, None) exactly when no call yielded a location, all attempts on
\* all variants having been made.  (The list of variants is built once, before the
\* first call, and is compared there.)
C9_FirstResultInVariantOrder ==
    LET inv == geo.inv
    IN Called =>
         /\ inv.lastCall = None => inv.variants = StatedVariants(inv.address)
         /\ VariantMajor
         /\ inv.callsAfterHit = 0
         /\ inv.hit # None => inv.ret = inv.hit
         /\ HasReturned => (inv.ret = Some(Null2) <=> inv.hit = None)
         /\ (HasReturned /\ inv.hit = None) =>
              \A v \in 1..Len(inv.variants) : inv.attempts[v] = geo.retries

\* the third variant answered at its second attempt, after failures of every kind
C9_Witness ==
    /\ HasReturned /\ geo.inv.hit # None
    /\ Len(geo.inv.variants) = 3
    /\ geo.inv.variants[2] # geo.inv.variants[3]
    /\ geo.inv.attempts = <<3, 3, 2>>
    /\ geo.inv.slept > 0

IsPair(x) == x[1] # None /\ x[2] # None

\* C10: whatever the service raises, no exception leaves geocode_address: it returns
\* a pair of coordinates or (None, None), and main goes on to the next row, so that
\* every row gets its entry in lats and lons.
C10_ErrorsNeverPropagate ==
    /\ geo.pc # "raised"
    /\ HasReturned => (IsPair(Val(geo.inv.ret)) \/ geo.inv.ret = Some(Null2))
    /\ geo.pc \in {"row", "geocode"} => Len(geo.lats) = geo.r - 1 /\ Len(geo.lons) = geo.r - 1
    /\ geo.pc = "done" => Len(geo.lats) = Len(geo.rows) /\ Len(geo.lons) = Len(geo.rows)

\* both rows were geocoded, the second one ending on a non-transient error, and the
\* run has finished with both rows failed
C10_Witness ==
    /\ geo.pc = "done" /\ Len(geo.rows) = 2
    /\ Len(geo.failed) = 2
    /\ geo.inv.lastCall # None /\ Val(geo.inv.lastCall).out = "error"
    /\ geo.inv.ret = Some(Null2)

(***************************************************************************)
(* Claims about the batch run: given coordinates, the cache, the outputs.  *)
(***************************************************************************)
\* the rows whose iteration is over, and those begun
RowsDone == 1..Len(geo.lats)
RowsBegun == 1..Len(geo.log)
CacheOn == ~geo.args.no_cache

\* row k of the input carries a number in both its lat and its lon cell
ValidGiven(k) ==
    geo.args.has_latlon /\ geo.rows[k].lat.kind = "num" /\ geo.rows[k].lon.kind = "num"
GivenPair(k) == <<Some(Num(geo.rows[k].lat.v)), Some(Num(geo.rows[k].lon.v))>>

\* C11: a row that carries valid numeric lat and lon causes no service call, gets
\* exactly those coordinates, and (the cache being in use) the cache entry of its
\* normalized address is set to them, whatever entry the address had.
C11_GivenCoordinatesAreKept ==
    /\ \A k \in RowsBegun : ValidGiven(k) => ~geo.log[k].called /\ k \in RowsDone
    /\ \A k \in RowsDone :
         ValidGiven(k) =>
            /\ <<geo.lats[k], geo.lons[k]>> = GivenPair(k)
            /\ CacheOn => /\ InCache(geo.cache, geo.rows[k].full_addr)
                          /\ CacheGet(geo.cache, geo.rows[k].full_addr) = GivenPair(k)

\* the second row had valid coordinates and a cache entry with other coordinates
C11_Witness ==
    /\ 2 \in RowsDone /\ ValidGiven(2) /\ CacheOn
    /\ geo.log[2].found # None
    /\ Val(geo.log[2].found) # GivenPair(2)
    /\ CacheGet(geo.cache, geo.rows[2].full_addr) = GivenPair(2)

\* row k of the input has a lat or lon cell that is text or blank
InvalidGiven(k) ==
    geo.args.has_latlon /\ (geo.rows[k].lat.kind # "num" \/ geo.rows[k].lon.kind # "num")
IsNaN(x) == x # None /\ Val(x).nan

\* C12: a row whose lat or lon cell is not a valid number (text, or blank) is
\* treated as a row without coordinates: it is resolved through the cache or by
\* geocoding, and NaN is neither put out as its coordinate nor written into the cache.
C12_InvalidGivenIsAbsent ==
    \A k \in RowsDone :
       InvalidGiven(k) =>
          /\ ~geo.log[k].given
          /\ geo.log[k].found # None \/ geo.log[k].called
          /\ ~IsNaN(geo.lats[k]) /\ ~IsNaN(geo.lons[k])
          /\ \A e \in 1..Len(geo.cache) : ~IsNaN(geo.cache[e].val[1]) /\ ~IsNaN(geo.cache[e].val[2])

InRecords(k) == \E n \in 1..Len(geo.records) : geo.records[n].School = geo.rows[k].School
InFailed(k) == \E n \in 1..Len(geo.failed) : geo.failed[n].School = geo.rows[k].School
InReference(k) == \E n \in 1..Len(geo.reference) : geo.reference[n].School = geo.rows[k].School

\* C13: after a run every input row is either among the records of the map or in
\* the failed list, never in both and never in neither, and the reference table
\* holds every input row.
C13_RowsArePartitioned ==
    geo.pc = "done" =>
       \A k \in 1..Len(geo.rows) :
          /\ InRecords(k) # InFailed(k)
          /\ InReference(k)

IsFailure(e) == e[1] = None \/ e[2] = None
IsValidEntry(e) == ~isna(e[1]) /\ ~isna(e[2])

\* C15: for a row without usable coordinates of its own: a cache entry with valid
\* coordinates is the row's result, without a service call; a cache entry recorded
\* as a failure is the row's result, without a service call, when regeocode_failed
\* is off; when it is on, the address is geocoded again and the cache entry becomes
\* the new outcome.
C15_CachedFailureReuse ==
    \A k \in RowsBegun :
       (~geo.log[k].given /\ geo.log[k].found # None) =>
          LET e == Val(geo.log[k].found)
              reuse == IsValidEntry(e) \/ (IsFailure(e) /\ ~geo.args.regeocode_failed)
          IN /\ reuse => /\ ~geo.log[k].called
                         /\ k \in RowsDone
                         /\ <<geo.lats[k], geo.lons[k]>> = e
             /\ (IsFailure(e) /\ geo.args.regeocode_failed /\ k \in RowsDone) =>
                   /\ geo.log[k].called
                   /\ CacheGet(geo.cache, geo.rows[k].full_addr) = <<geo.lats[k], geo.lons[k]>>

\* the first row's cached failure was geocoded again and replaced by coordinates,
\* the second row's cached coordinates were reused
C15_Witness ==
    /\ 2 \in RowsDone /\ geo.args.regeocode_failed
    /\ geo.log[1].found = Some(Null2) /\ geo.log[1].called
    /\ ~isna(geo.lats[1])
    /\ CacheGet(geo.cache, geo.rows[1].full_addr) = <<geo.lats[1], geo.lons[1]>>
    /\ ~geo.log[2].given /\ geo.log[2].found # None /\ ~geo.log[2].called

\* the cell a cache value is kept as in the persisted table
PersistedCell(x) == IF isna(x) THEN None ELSE Some(Val(x).v)

\* C17: when a run with the cache in use is done, the persisted table is the cache:
\* one row per key, in the cache's order, with the key's current latitude and
\* longitude (None and NaN both being kept as an empty cell).
C17_FinalStoreIsTheCache ==
    (geo.pc = "done" /\ CacheOn) =>
       IF geo.cache = <<>> THEN geo.disk = None \/ Val(geo.disk) = <<>>
       ELSE /\ geo.disk # None
            /\ Len(Val(geo.disk)) = Len(geo.cache)
            /\ \A k \in 1..Len(geo.cache) :
                  /\ Val(geo.disk)[k].address = geo.cache[k].address
                  /\ Val(geo.disk)[k].lat = PersistedCell(geo.cache[k].val[1])
                  /\ Val(geo.disk)[k].lon = PersistedCell(geo.cache[k].val[2])

\* a run that loaded two entries, geocoded the first address again and finished
C17_Witness ==
    /\ geo.pc = "done" /\ CacheOn
    /\ Len(geo.cache) >= 2
    /\ geo.log # <<>> /\ geo.log[1].found # None /\ geo.log[1].called
    /\ ~isna(geo.lats[1])

\* C14: save_cache of a cache followed by load_cache gives that cache back: the
\* same keys with the same pairs, also for the empty cache and for failure
\* entries, and nothing of the table that was on disk before.
C14_SaveThenLoad ==
    geo.pc = "loaded" => geo.loaded = geo.cache

\* C16: at the end of every iteration of the row loop, fewer than 25 of the cache
\* writes of the run are missing from the table on disk.
C16_UnsavedTailIsShort ==
    geo.pc = "batch" => geo.unsaved < SaveEvery

(***************************************************************************)
(* Claims about the status of a row.                                       *)
(***************************************************************************)
AsciiWS == {" ", "\n", "\t", "\r"}

\* the canonical value of a status text, as stated: case and surrounding white
\* space aside, active, both and current are current, recent is recent, the rest none
StatedCanonical(s) ==
    LET v == lower(Strip(s, AsciiWS))
    IN IF v \in {sCurrent, sActive, sBoth} THEN sCurrent
       ELSE IF v = sRecent THEN sRecent
       ELSE sNone

RecognizedStatus(cell) ==
    cell.kind = "text" /\ lower(Strip(cell.s, AsciiWS)) \in {sNone, sRecent, sCurrent, sActive, sBoth}

IsTruthy(cell) == cell.kind = "text" /\ lower(Strip(cell.s, AsciiWS)) \in Truthy

\* C19: a row with a recognized explicit status gets that status, matched without
\* regard to case; a row whose explicit status is absent, blank or not recognized
\* gets current if Current Work is truthy, else recent if Recent Relationship is
\* truthy, else none.
C19_DerivedStatus ==
    geo.derived # None =>
       Val(geo.derived) =
          IF RecognizedStatus(geo.row.Status) THEN StatedCanonical(geo.row.Status.s)
          ELSE IF IsTruthy(geo.row.Current) THEN sCurrent
          ELSE IF IsTruthy(geo.row.Recent) THEN sRecent
          ELSE sNone

\* C20: normalize_status_value and normalizeStatus give every status text the same
\* value, the stated canonical one, and each gives its own result back unchanged.
C20_NormalizersAgree ==
    (geo.row.Status.kind = "text" /\ geo.server # None /\ geo.client # None) =>
       /\ Val(geo.server) = Val(geo.client)
       /\ Val(geo.server) = StatedCanonical(geo.row.Status.s)
       /\ normalize_status_value(Val(geo.server)) = Val(geo.server)
       /\ normalizeStatus(Val(geo.client)) = Val(geo.client)

(***************************************************************************)
(* Claims about single steps of the store: what a handler run changes and  *)
(* what it leaves alone.  hist' names the handler that took the step.      *)
(***************************************************************************)
Top(stack) == stack[Len(stack)]
Front(s) == SubSeq(s, 1, Len(s) - 1)
Without(s, i) == [k \in 1..(Len(s) - 1) |-> IF k < i THEN s[k] ELSE s[k + 1]]

UndoStep == hist'.op \in {"undo", "delete_undo"}

\* C24: undoDelete with a non-empty stack pops exactly the most recent entry and
\* puts its record back at index min(original index, current length of the store),
\* which is always a position of the store or its end; the other records keep
\* their order, and the entries left on the stack are unchanged.
C24_UndoPopsTheLatest ==
    [][UndoStep =>
          /\ UNDO_STACK # <<>>
          /\ UNDO_STACK' = Front(UNDO_STACK)
          /\ LET pos == Min(Top(UNDO_STACK).idx, Len(DATA))
             IN /\ pos \in 0..Len(DATA)
                /\ Len(DATA') = Len(DATA) + 1
                /\ DATA'[pos + 1] = Top(UNDO_STACK).rec
                /\ Without(DATA', pos + 1) = DATA]_vars

\* two records were deleted and the later deletion has been undone: the earlier
\* one still waits on the stack
C24_Witness ==
    /\ hist.op = "delete_undo"
    /\ Len(UNDO_STACK) = 1
    /\ UNDO_STACK[1].rec.uid \notin {DATA[i].uid : i \in 1..Len(DATA)}
    /\ Len(DATA) >= 2

\* C25: undoDelete with an empty stack changes nothing of the state (records,
\* undo stack, pending move, filter, markers); it only shows a notice.
C25_UndoOnEmptyStack ==
    [][(hist'.op = "undo_none") =>
          /\ UNDO_STACK = <<>>
          /\ UNCHANGED <<DATA, UNDO_STACK, moveIndex, statusChk, groupSel, searchBox,
                         markers, schoolList, forms, addMode>>
          /\ toast' = Some("Nothing to undo.")]_vars

\* nothing was ever deleted, a move is pending and a status box is unchecked when
\* Undo Delete is pressed
C25_Witness ==
    /\ hist.op = "undo_none"
    /\ DATA # <<>>
    /\ IsSome(moveIndex)
    /\ statusChk # DefaultStatusChk

\* C26: delete(i) on an index that holds a record removes exactly that record and
\* pushes one entry, a copy of the record with i, on top of the undo stack, the
\* earlier entries unchanged; no run of setStatus, of move or of the click that
\* completes a move alters the undo stack; delete on an index that holds no
\* record changes nothing.
C26_DeleteFrame ==
    [][/\ (hist'.op = "delete") =>
             /\ Front(UNDO_STACK') = UNDO_STACK
             /\ LET i == Top(UNDO_STACK').idx
                IN /\ i \in 0..(Len(DATA) - 1)
                   /\ Top(UNDO_STACK') = [type |-> "delete", rec |-> DATA[i + 1], idx |-> i]
                   /\ DATA' = Without(DATA, i + 1)
       /\ (hist'.op \in {"setStatus", "setStatus_none", "move", "click_moved",
                         "click_move_none"}) => UNDO_STACK' = UNDO_STACK
       /\ (hist'.op = "delete_none") =>
             UNCHANGED <<DATA, UNDO_STACK, markers, moveIndex, schoolList>>]_vars

\* a second record has been deleted from the middle of the store while the first
\* deleted one is on the stack
C26_Witness ==
    /\ hist.op = "delete"
    /\ Len(UNDO_STACK) = 2
    /\ Top(UNDO_STACK).idx = 1
    /\ DATA # <<>>

ClickStep == hist'.op \in {"click_moved", "click_move_none", "click", "click_add"}
\* the positions of the store whose record differs after the step
Altered == {i \in 1..Len(DATA) : i > Len(DATA') \/ DATA'[i] # DATA[i]}
CoordinatesAside(a, b) == [a EXCEPT !.lat = b.lat, !.lon = b.lon] = b

\* C27: the map click that follows a move request changes the coordinates of at
\* most one record, the one at the requested index, clears the pending move and
\* opens no add form, add mode or not; a map click with no move pending changes no
\* record, and only a move request makes a move pending, so every later click
\* changes no record until move is requested again; no other handler consumes
\* the pending move.
C27_MoveIsConsumedByNextClick ==
    [][/\ (ClickStep /\ IsSome(moveIndex)) =>
             /\ moveIndex' = None
             /\ forms' = forms
             /\ Len(DATA') = Len(DATA)
             /\ Altered \subseteq {Val(moveIndex) + 1}
             /\ \A i \in Altered : CoordinatesAside(DATA[i], DATA'[i])
       /\ (ClickStep /\ moveIndex = None) => (DATA' = DATA /\ moveIndex' = None)
       /\ (hist'.op # "move" /\ moveIndex = None) => moveIndex' = None
       /\ (~ClickStep /\ hist'.op # "move") => moveIndex' = moveIndex]_vars

\* in add mode, the click after a move request has moved a record and has opened
\* no form
C27_Witness ==
    /\ hist.op = "click_moved"
    /\ addMode
    /\ forms = <<>>
    /\ moveIndex = None
    /\ \E i \in 1..Len(DATA) : DATA[i].lat = toFixed6(451234565)

\* C28: setStatus(i, s) on an index that holds a record changes the status of that
\* record to the canonical value of s and nothing else: the number and order of
\* the records, their other fields, the undo stack and the pending move stay as
\* they were; on an index that holds no record it changes nothing.
C28_SetStatusFrame ==
    [][/\ (hist'.op = "setStatus") =>
             LET i == hist'.snap[1]
                 s == hist'.snap[2]
             IN /\ i \in 0..(Len(DATA) - 1)
                /\ DATA' = [DATA EXCEPT ![i + 1].Status = StatedCanonical(s)]
                /\ UNCHANGED <<UNDO_STACK, moveIndex>>
       /\ (hist'.op = "setStatus_none") =>
             /\ hist'.snap[1] >= Len(DATA)
             /\ UNCHANGED <<DATA, UNDO_STACK, moveIndex, markers, schoolList>>]_vars

\* with a deleted record on the stack and a move pending, the first of several
\* records has been given the status " Active "
C28_Witness ==
    /\ hist.op = "setStatus"
    /\ hist.snap = <<0, <<" ","A","c","t","i","v","e"," ">>>>
    /\ Len(DATA) >= 2
    /\ DATA[1].Status = sCurrent
    /\ UNDO_STACK # <<>>
    /\ IsSome(moveIndex)

\* C29: saving an add form appends exactly one new record at the end of the store;
\* the records that were there keep their index and their values and the undo
\* stack is unchanged; cancelling the form changes nothing of the store.
C29_SaveAppendsOne ==
    [][/\ (hist'.op = "create") =>
             /\ Len(DATA') = Len(DATA) + 1
             /\ Front(DATA') = DATA
             /\ Top(DATA').uid \notin {DATA[i].uid : i \in 1..Len(DATA)}
             /\ UNCHANGED <<UNDO_STACK, moveIndex>>
       /\ (hist'.op = "cancel") =>
             UNCHANGED <<DATA, UNDO_STACK, moveIndex, markers, schoolList, statusChk,
                         groupSel, searchBox, groupOptions>>]_vars

\* a form has been saved into a store that held records, one deleted record
\* waiting on the stack
C29_Witness ==
    /\ hist.op = "create"
    /\ UNDO_STACK # <<>>
    /\ Len(DATA) >= 3
    /\ Top(DATA).School = <<"Z","e","d">>

ShownUids == {markers[k].rec : k \in {j \in 1..Len(markers) : markers[j].shown}}
VisibleUids ==
    {DATA[i].uid :
        i \in {j \in 1..Len(DATA) : visiblePredicate(DATA[j], statusChk, groupSel, searchBox)}}

\* C30: after init and after every handler that changes the store (create,
\* setStatus, the click that moves, delete, undoDelete) or applies a change of the
\* filter (status boxes, group selection, Search, Clear), the markers shown on the
\* map are exactly the records of the store that the visibility predicate accepts
\* under the controls as they are, one marker per record; a saved record that
\* matches is shown and a record given a status whose box is unchecked is hidden.
\* (Typing into the search box is no filter change until Search is pressed.)
C30_MarkersShowTheVisible ==
    hist.op \in AppliesFilters =>
       /\ ShownUids = VisibleUids
       /\ \A k, l \in 1..Len(markers) : markers[k].rec = markers[l].rec => k = l
       /\ hist.op = "create" =>
             (visiblePredicate(Top(DATA), statusChk, groupSel, searchBox)
                 <=> Top(DATA).uid \in ShownUids)
       /\ hist.op = "setStatus" =>
             LET rec == DATA[hist.snap[1] + 1]
             IN rec.Status \notin statusChk => rec.uid \notin ShownUids

\* a record has just been given a status whose box is unchecked and its marker
\* is off the map, while other markers are shown
C30_Witness ==
    /\ hist.op = "setStatus"
    /\ DATA[hist.snap[1] + 1].Status = sRecent
    /\ sRecent \notin statusChk
    /\ DATA[hist.snap[1] + 1].uid \notin ShownUids
    /\ ShownUids # {}
(***************************************************************************)
(* Claims about normalize_address.                                         *)
(***************************************************************************)
\* C21: normalize_address is idempotent: applied to its own result for a text x it
\* gives that result again.
C21_NormalizeIsIdempotent ==
    (geo.x.kind = "text" /\ geo.twice # None) => Val(geo.twice) = Val(geo.once)

\* C22: normalize_address gives the empty text for every value that is no text,
\* and for every non-empty text a text that contains both "Nova Scotia" and
\* "Canada".
C22_NormalizeIsTotal ==
    geo.once # None =>
       /\ geo.x.kind # "text" => Val(geo.once) = <<>>
       /\ (geo.x.kind = "text" /\ geo.x.s # <<>>) =>
             /\ includes(Val(geo.once), sNovaScotia)
             /\ includes(Val(geo.once), sCanada)

\* a text that names neither the province nor the country, the province given as
\* its first word NS, has been normalized
C22_Witness ==
    /\ geo.once # None
    /\ geo.x.kind = "text"
    /\ geo.x.s = <<"N","S"," ","E","l","m",","," ","1","2">>
    /\ Val(geo.once) = <<"N","S"," ","E","l","m",","," ","1","2",","," ","N","o","v","a"," ","S","c","o","t","i","a",","," ","C","a","n","a","d","a">>

MissingAddress(cell) == cell.kind # "text" \/ Strip(cell.s, PyWS) = <<>>

\* C23: for a row whose address cell is blank or holds no text the batch run calls
\* the geocoding service not once and writes no cache entry.
C23_MissingAddressIsSkipped ==
    \A r \in 1..Len(geo.log) :
        MissingAddress(geo.rows[r].Address) =>
           /\ ~geo.log[r].called
           /\ ~InCache(geo.cache, geo.rows[r].full_addr)
(***************************************************************************)
(* Claims about the list view, the marker list and the conservation of     *)
(* records.                                                                *)
(***************************************************************************)
ListedUids == {schoolList[k].rec : k \in 1..Len(schoolList)}

Uids(recs) == {recs[i].uid : i \in 1..Len(recs)}
StackRecs == [k \in 1..Len(UNDO_STACK) |-> UNDO_STACK[k].rec]

\* C38: every record that was loaded at the start or created by a saved form is
\* either in the store or on the undo stack, and only once: the sizes of the two
\* add up to the number of records loaded and created (nextUid - 1 of them, the
\* uids being handed out in sequence), and no uid is missing or held twice.
C38_RecordsAreConserved ==
    /\ Len(DATA) + Len(UNDO_STACK) = nextUid - 1
    /\ Uids(DATA) \cup Uids(StackRecs) = 1..(nextUid - 1)
    /\ Cardinality(Uids(DATA)) = Len(DATA)
    /\ Cardinality(Uids(StackRecs)) = Len(UNDO_STACK)
    /\ Uids(DATA) \cap Uids(StackRecs) = {}

\* a record has been created by a form and a loaded record has been deleted
C38_Witness ==
    /\ hist.op = "delete"
    /\ UNDO_STACK # <<>>
    /\ \E i \in 1..Len(DATA) : DATA[i].School = <<"Z","e","d">>
    /\ Len(DATA) >= 2

\* one marker per record, in store order, bound to its record and carrying its index
MarkersParallel ==
    /\ Len(markers) = Len(DATA)
    /\ \A k \in 1..Len(markers) : markers[k].rec = DATA[k].uid /\ markers[k].idx = k - 1

\* C40: after init and after every handler the marker list is parallel to the
\* store, marker i bound to record i and its popup carrying index i; and an action
\* a popup has issued by index addresses the record of that popup: the index of a
\* pending move is the index of the record whose popup requested the move.
C40_MarkersParallelToStore ==
    /\ MarkersParallel
    /\ (IsSome(moveIndex) /\ IsSome(moveTarget)) =>
          /\ Val(moveIndex) < Len(DATA)
          /\ DATA[Val(moveIndex) + 1].uid = Val(moveTarget)

\* C37: n deletes at valid indices followed by n undos, nothing else in between,
\* leave the store the sequence of records it was before the first delete and the
\* undo stack as it was then.
C37_DeletesThenUndosRestore ==
    (hist.op \in {"undo", "delete_undo"} /\ Pending = 0) =>
       /\ DATA = geo.base.DATA
       /\ UNDO_STACK = geo.base.UNDO_STACK

\* two deletes and two undos, begun with a deleted record on the stack
C37_Witness ==
    /\ hist.op = "undo"
    /\ Pending = 0
    /\ nOps = MaxOps - 2 * MaxPairs + 4
    /\ geo.base.UNDO_STACK # <<>>
    /\ DATA = geo.base.DATA
(***************************************************************************)
(* Claims about the page's address lookups, checked under SpecLookup.      *)
(***************************************************************************)
\* a step that leaves the records, the undo stack, the markers and a pending move alone
StoreKept == UNCHANGED <<DATA, UNDO_STACK, markers, schoolList, moveIndex, moveTarget, nextUid>>

\* the lookup with the id a resolve step recorded
Lookup(id) == CHOOSE p \in geo.pending : p.id = id

\* C32: a failed address lookup changes nothing in the store.  One started from the
\* panel opens an add form at the last clicked point if a click was captured and else at
\* the map center; one started in an open add form leaves the form open with the
\* coordinates and address it had, so it can be saved or looked up again.
C32_FailedLookupKeepsStore ==
    [][/\ hist'.op \in {"panel_failed", "form_failed", "late_failed"} => StoreKept
       /\ hist'.op = "panel_failed" =>
             LET base == IF IsSome(lastClickLL) THEN Val(lastClickLL) ELSE MapCenter
             IN forms' = Append(forms, [lat |-> toFixed6(base.lat),
                                        lon |-> toFixed6(base.lng),
                                        address |-> Lookup(hist'.snap[1]).q])
       /\ hist'.op = "form_failed" =>
             /\ forms' = forms
             /\ hist'.snap[2] \in OpenForms'
      ]_vars

\* a click was captured, the panel's lookup failed, the lookup in the form it opened
\* failed, and the form was saved: the new record lies at the clicked point
C32_Witness ==
    /\ hist.op = "create"
    /\ Len(geo.done) = 2
    /\ geo.done[1].form = 0 /\ geo.done[1].ll = None
    /\ geo.done[2].form = 1 /\ geo.done[2].ll = None
    /\ IsSome(lastClickLL)
    /\ DATA[Len(DATA)].lat = toFixed6(Val(lastClickLL).lat)
    /\ DATA[Len(DATA)].lat # toFixed6(MapCenter.lat)

\* the result of the lookup of form f that resolved last among those with a result
LastFound(f) == Val(geo.done[CHOOSE i \in Found(f) : \A j \in Found(f) : j <= i].ll)

ShowsLastFound(form, f) ==
    Found(f) # {} => /\ form.lat = toFixed6(LastFound(f).lat)
                     /\ form.lon = toFixed6(LastFound(f).lon)

\* C33: an open add form on which lookups have succeeded holds the coordinates of the
\* one that resolved last, in whatever order they were started, and saving the form
\* creates a record with those coordinates.
C33_LastResolvedWins ==
    [][/\ \A k \in 1..Len(forms') : ShowsLastFound(forms[k], Ord(k))'
       /\ hist'.op = "create" =>
             \A f \in geo'.closed \ geo.closed : ShowsLastFound(DATA[Len(DATA)], f)'
      ]_vars

\* two lookups on one form, the one started second resolved first with another result,
\* and the form saved
C33_Witness ==
    /\ hist.op = "create"
    /\ Len(geo.done) = 2
    /\ geo.done[1].id = 2 /\ geo.done[2].id = 1
    /\ geo.done[1].form = geo.done[2].form
    /\ IsSome(geo.done[1].ll) /\ IsSome(geo.done[2].ll)
    /\ geo.done[1].ll # geo.done[2].ll
    /\ DATA[Len(DATA)].lat = toFixed6(Val(geo.done[2].ll).lat)

\* what Delete, UndoDelete, UpdateStatus, Move and a click in add mode do
HandlerEffect ==
    /\ hist'.op = "delete" =>
          \E idx \in 0..(Len(DATA) - 1) :
              /\ DATA' = RemoveAt(DATA, idx + 1)
              /\ UNDO_STACK' = Append(UNDO_STACK, [type |-> "delete", rec |-> DATA[idx + 1],
                                                   idx |-> idx])
    /\ hist'.op \in {"undo", "delete_undo"} =>
          /\ DATA' = undoDeleteData(UNDO_STACK, DATA)
          /\ UNDO_STACK' = SubSeq(UNDO_STACK, 1, Len(UNDO_STACK) - 1)
    /\ hist'.op = "setStatus" =>
          /\ DATA' = [DATA EXCEPT ![hist'.snap[1] + 1].Status = normalizeStatus(hist'.snap[2])]
          /\ UNCHANGED UNDO_STACK
    /\ hist'.op = "move" =>
          /\ IsSome(moveIndex')
          /\ UNCHANGED <<DATA, UNDO_STACK, markers>>
    /\ hist'.op = "click_add" =>
          /\ forms' = Append(forms, [lat |-> toFixed6(Val(lastClickLL').lat),
                                     lon |-> toFixed6(Val(lastClickLL').lng),
                                     address |-> <<>>])
          /\ UNCHANGED <<DATA, UNDO_STACK, markers>>
    /\ hist'.op \in {"delete", "undo", "delete_undo", "setStatus", "move", "click_add"} =>
          /\ hist'.op \in {"delete", "undo", "delete_undo"} =>
                markers' = rebuildMarkersOf(DATA', statusChk, groupSel, searchBox)
          /\ geo' = geo

\* C39: a lookup that resolves after its add form was saved or cancelled changes no
\* record, creates none and changes no open form; starting a lookup changes nothing in
\* the store; and while a lookup is pending Delete, UndoDelete, UpdateStatus, Move and
\* a click in add mode do what they do with none pending and leave it pending.
C39_LookupsLeaveStoreAlone ==
    [][/\ hist'.op \in {"late_found", "late_failed"} => StoreKept /\ forms' = forms
       /\ hist'.op \in {"btnGeocode", "btnGeocode_empty", "formGeocode"} =>
             StoreKept /\ forms' = forms
       /\ hist'.op \in {"panel_found", "panel_failed", "form_found", "form_failed"} =>
             StoreKept
       /\ geo.pending # {} => HandlerEffect
      ]_vars

\* a record was deleted while the lookup of a form was pending, the form was saved, and
\* the lookup then resolved with coordinates the new record does not have
C39_Witness ==
    /\ hist.op = "late_found"
    /\ UNDO_STACK # <<>>
    /\ geo.pending = {}
    /\ \E i \in 1..Len(DATA) :
          /\ DATA[i].uid = nextUid - 1
          /\ DATA[i].lat # toFixed6(Val(geo.done[Len(geo.done)].ll).lat)
(***************************************************************************)
(* Further claims about the batch run and geocode_address.                 *)
(***************************************************************************)
\* the row the run resolved last was geocoded
LastRowGeocoded ==
    /\ geo.pc \in {"row", "done"}
    /\ geo.log # <<>>
    /\ geo.log[Len(geo.log)].called

\* C34: when the run has geocoded the address of a row with the cache in use, the
\* cache holds for that address what geocode_address returned, a pair of coordinates
\* or (None, None): a failed address is in the cache, as a failure.
C34_OutcomeIsCached ==
    (LastRowGeocoded /\ ~geo.args.no_cache) =>
       /\ HasReturned
       /\ geo.inv.address = geo.rows[Len(geo.log)].full_addr
       /\ InCache(geo.cache, geo.inv.address)
       /\ CacheGet(geo.cache, geo.inv.address) = Val(geo.inv.ret)

\* an address the cache did not have was geocoded and failed
C34_Witness ==
    /\ LastRowGeocoded /\ ~geo.args.no_cache
    /\ geo.log[Len(geo.log)].found = None
    /\ geo.inv.ret = Some(Null2)
    /\ CacheGet(geo.cache, geo.inv.address) = Null2

\* the service calls of the invocation so far
Calls(inv) ==
    LET n == Len(inv.attempts)
    IN (IF n >= 1 THEN inv.attempts[1] ELSE 0) + (IF n >= 2 THEN inv.attempts[2] ELSE 0)
       + (IF n >= 3 THEN inv.attempts[3] ELSE 0)

\* C36: an invocation of geocode_address ends, each service call returning or
\* raising: it has at most 3 variants, no two alike, and makes at most
\* retries * (number of variants) service calls, whatever the calls return or raise.
C36_GeocodeTerminates ==
    /\ [](Called =>
            /\ Len(geo.inv.variants) \in 1..3
            /\ \A a, b \in 1..Len(geo.inv.variants) :
                  a # b => geo.inv.variants[a] # geo.inv.variants[b]
            /\ Len(geo.inv.attempts) = Len(geo.inv.variants)
            /\ Calls(geo.inv) <= geo.retries * Len(geo.inv.variants))
    /\ (geo.pc = "geocode") ~> (geo.pc # "geocode")

\* an invocation that made all its 9 calls, errors of both kinds and empty answers
\* among them, and returned
C36_Witness ==
    /\ HasReturned
    /\ Len(geo.inv.variants) = 3 /\ geo.retries = 3
    /\ Calls(geo.inv) = 9
    /\ ~geo.inv.onlyTimeouts
    /\ Val(geo.inv.lastCall).out = "error"

\* no two rows of one normalized address begun so far were both geocoded
OncePerAddress ==
    \A i, j \in 1..Len(geo.log) :
        (i < j /\ geo.rows[i].full_addr = geo.rows[j].full_addr) =>
            ~(geo.log[i].called /\ geo.log[j].called)

\* the second run has made no service call
SecondRunIsSilent ==
    geo.run = 2 => /\ geo.pc # "geocode"
                   /\ \A i \in 1..Len(geo.log) : ~geo.log[i].called

\* C35: in a run with the cache in use no address is geocoded for more than one of
\* the rows that share it, with --regeocode-failed too; and a second run over the
\* same input, with the cache the first run saved and --regeocode-failed off, makes
\* no service call.
C35_OneLookupPerAddress == OncePerAddress /\ SecondRunIsSilent

\* with --regeocode-failed off the rows that share an address are geocoded once
OnceWithoutRetryFlag == ~geo.args.regeocode_failed => OncePerAddress
=============================================================================
